---- MODULE Spec2Model ----
(***************************************************************************)
(* Sift: photo organizer.  A state-machine model of                        *)
(*   - the local organize pipeline (src/src/organize.rs, index.rs,         *)
(*     organization.rs), and                                               *)
(*   - the OneDrive zero-download pipeline (src/src/onedrive.rs).          *)
(* The file system, the process scheduler (crashes) and the Graph API      *)
(* server are the environment; their choices are nondeterministic.         *)
(***************************************************************************)
EXTENDS Integers, Sequences, FiniteSets, TLC

(***************************************************************************)
(* Bounds of the model.                                                    *)
(***************************************************************************)
MaxContent == 2      \* distinct file contents
MaxRuns == 2         \* consecutive runs of a pipeline
MaxEdits == 1        \* changes made to the source directory between runs
MaxItems == 2        \* drive items one delta scan returns
MaxPages == 2        \* pages of one delta scan
MaxInserts == 3      \* add_entry calls on one index
MaxIssued == 3       \* tokens the server issues
MaxAuths == 2        \* calls of authenticate
MaxCalls == 2        \* Graph API calls of one client
MaxTicks == 2        \* five-minute steps of the clock
MaxPolls == 4        \* token requests of one device-code polling loop
MaxPoints == 4       \* points of one dbscan input
MaxCoord == 2        \* positions of the points, in km along the equator
MaxLocation == 3
MaxName == 2
MaxPieces == 4
MaxRecordPieces == 2
MaxUploads == 3
MaxCommands == 3     \* characters of a location name

(***************************************************************************)
(* Option values, as in Rust: None is <<>>, Some(x) is <<x>>.              *)
(***************************************************************************)
None == <<>>
Some(x) == <<x>>
IsSome(o) == o # <<>>
Unwrap(o) == o[1]
Option(S) == {None} \cup {Some(x) : x \in S}

Range(s) == {s[i] : i \in 1..Len(s)}
Prefixes(s) == {SubSeq(s, 1, k) : k \in 0..Len(s)}
SeqSum(s, P(_)) == Cardinality({i \in 1..Len(s) : P(s[i])})

(***************************************************************************)
(* ------------------------- LOCAL PIPELINE ----------------------------   *)
(***************************************************************************)

\* The photo basenames the source directory may hold, and a file that is
\* always there and is not a photo.
PhotoNames == {"a.jpg", "b.JPG"}
OtherNames == {"notes.txt"}
Contents == 1..MaxContent
Dates == {[year |-> 2024, month |-> 1, day |-> 15]}

\* Lowercased extension of a basename (Path::extension + to_lowercase).
ext_lower(name) ==
    CASE name = "a.jpg" -> "jpg"
      [] name = "b.JPG" -> "jpg"
      [] name = "notes.txt" -> "txt"

photo_extensions == {"jpg", "jpeg", "png", "tiff", "raw", "heic"}

\* The digest of a content: blake3 is modelled as collision free.
hash_bytes(c) == <<"blake3", c>>

\* record.path.to_string_lossy() of a file of the source directory.
SrcPath(name) == <<"src", name>>

\* A file of the source directory: its bytes and the date of its mtime.
FileVals == [content : Contents, mtime : Dates]

VARIABLES
    source,          \* source directory: basename -> file, a partial function
    dest,            \* destination tree: <<YYYY, MM, DD, basename>> -> content
    index_file,      \* [exists, bytes]: the file at index_path
    dry_run,         \* the --dry-run flag of the current invocation
    pc,              \* position of the current run
    result,          \* "none" while running, then "ok", "err" or "crashed"
    index,           \* Index.entries of the run: digest -> IndexEntry
    files,           \* output of scan_source
    records,         \* output of analyze_files
    unique_records,  \* records still to be organized
    stats,           \* OrganizeStats
    errors,          \* Orchestrator.errors
    runs,            \* number of runs started
    edits,           \* number of changes made to the source directory
    h                \* history of the run, for stating properties

localVars == <<source, dest, index_file, dry_run, pc, result, index, files,
               records, unique_records, stats, errors, runs, edits, h>>

VARIABLES
    delta_file,      \* [exists, state]: the file onedrive_delta.json
    folders,         \* server: the folders that exist, by path from the root
    cpc,             \* position of the current cloud run
    cresult,         \* "none" while running, then "ok" or "err"
    config,          \* PipelineConfig of the current run
    delta_state,     \* DeltaState of the run
    url,             \* scan_photos: the next URL to fetch
    items,           \* scan_photos: records collected so far
    pages,           \* scan_photos: pages fetched so far
    new_delta_link,  \* the cursor scan_photos returned
    unique,          \* references (positions in items) of the unique records
    cstats,          \* PipelineStats
    folder_cache,    \* cumulative path -> folder id
    posts,           \* folder-create requests issued in the run
    moves,           \* move requests issued in the run
    cruns,           \* number of cloud runs started
    ch               \* history of the cloud run, for stating properties

cloudVars == <<delta_file, folders, cpc, cresult, config, delta_state, url,
               items, pages, new_delta_link, unique, cstats, folder_cache,
               posts, moves, cruns, ch>>

VARIABLES
    full             \* the --full flag of the current scan command

scanVars == <<full>>

VARIABLES
    entries,         \* Index.entries of a program that uses the library
    entries_file,    \* the bytes save_to_file last wrote
    entries_loaded,  \* the entries of the index load_from_file returned
    ipc,             \* "build", "saved" or "loaded"
    inserts          \* the add_entry calls made so far: <<hash, file_path>>

indexVars == <<entries, entries_file, entries_loaded, ipc, inserts>>

VARIABLES
    attempt,         \* read_with_exponential_backoff: the loop variable
    delay_ms,        \* the delay of the next sleep
    last_error,      \* Option: the error of the last failed attempt
    rpc,             \* "attempt", "sleep", "exhausted" or "done"
    read_result,     \* Option: what the call returned, <<"Ok", d>> or <<"Err", e>>
    outcomes,        \* what every call of operation() returned
    sleeps           \* the sleeps made, in milliseconds

retryVars == <<attempt, delay_ms, last_error, rpc, read_result, outcomes, sleeps>>

VARIABLES
    now,             \* the clock, in seconds
    config_dir,      \* BOOLEAN: dirs::config_dir() names a directory
    token_file,      \* Option: the StoredToken in onedrive_token.json
    client_token,    \* Option: OneDriveClient.token
    tpc,             \* "idle", "device", "ready" or "failed"
    auth_error,      \* the error authenticate returned, "" when none
    server_mode,     \* "any", or "stalling": sign-in is never completed
    deadline,        \* device_code_flow: deadline
    poll_interval,   \* device_code_flow: poll_interval
    polls,           \* device_code_flow: token requests sent by the loop
    token_requests,  \* kinds of token request the current operation has sent
    sent,            \* Option: the bearer token of the request the last call sent
    call_result,     \* "none", "ok" or "err": what the last call returned
    issued,          \* tokens the server has issued
    auths,           \* calls of authenticate
    calls,           \* Graph API calls made
    ticks,           \* five-minute steps of the clock
    th               \* history: the device-code answer and the last poll

tokenVars == <<now, config_dir, token_file, client_token, tpc, auth_error, server_mode,
               deadline, poll_interval, polls, token_requests, sent,
               call_result, issued, auths, calls, ticks, th>>

VARIABLES
    points,          \* dbscan: points, a sequence of [id, km]
    eps_km,          \* dbscan: eps_km
    min_points,      \* dbscan: min_points
    clusters,        \* dbscan: clusters, cluster id -> sequence of point ids
    visited,         \* dbscan: visited
    cluster_id,      \* dbscan: cluster_id
    next_point,      \* position of the outer loop in points, from 1
    current_cluster, \* dbscan: current_cluster
    seed_set,        \* dbscan: seed_set
    dpc              \* "loop", "expand", "done" or "panic"

dbVars == <<points, eps_km, min_points, clusters, visited, cluster_id,
            next_point, current_cluster, seed_set, dpc>>

VARIABLES
    cfg_kind,        \* "delta": DeltaState::save, "token": save_token
    cfg_dir,         \* BOOLEAN: dirs::config_dir() names a directory
    cfg_file,        \* Option: the text in the file that is saved
    cfg_old,         \* Option: the text in the file before the save
    cfg_new,         \* the text the save writes
    wpc,             \* "call", "open", "write" or "done"
    wresult          \* "none", "ok", "err" or "crashed"

saveVars == <<cfg_kind, cfg_dir, cfg_file, cfg_old, cfg_new, wpc, wresult>>

VARIABLES
    plan_location,   \* organize_by_date_and_location: location, a sequence of characters
    plan_dest,       \* Option: the components of the path it returned
    plan_pc          \* "call", "done" or "failed"

planVars == <<plan_location, plan_dest, plan_pc>>

VARIABLES
    fparent,         \* get_or_create_folder: parent_id
    fname,           \* get_or_create_folder: folder_name, a sequence of characters
    fexists,         \* BOOLEAN: the drive has the folder under the parent
    flookup,         \* "none", or the answer to the lookup
    frequests,       \* the requests sent, in order, each <<method, name>>
    fresult,         \* Option: what the call returned
    fpc              \* "lookup", "create" or "done"

folderVars == <<fparent, fname, fexists, flookup, frequests, fresult, fpc>>

VARIABLES
    filename,        \* extract_date_from_filename: filename, a sequence of characters
    date_result,     \* Option: the Option<NaiveDate> it returned
    date_pc          \* "call" or "done"

dateVars == <<filename, date_result, date_pc>>

VARIABLES
    rec_file,        \* Option: a scanned file, [exif, name, mtime, readable]
    rec_item,        \* Option: a drive item of a delta page
    rec_out,         \* Option: what the mapping gave, itself an Option
    rec_pc           \* "call" or "done"

recordVars == <<rec_file, rec_item, rec_out, rec_pc>>

VARIABLES
    feed_log,        \* the drive's changes, in order, each [item_id, hash, parent]
    feed_parent,     \* the drive: item_id -> the folder the item is in
    feed_file,       \* the saved DeltaState; its delta_link is a position of feed_log
    feed_reported,   \* the items the drive has reported to a command
    feed_last,       \* "none", "scan" or "organize": the last command that returned
    feed_scans,      \* scan commands run
    feed_cmds,       \* commands run
    feed_dups        \* the last organize run: for each record counted in
                     \* duplicates, <<its item_id, the item_id seen_hashes held>>

feedVars == <<feed_log, feed_parent, feed_file, feed_reported, feed_last,
              feed_scans, feed_cmds, feed_dups>>

\* All the state, and the state each command leaves alone.
vars == <<localVars, cloudVars, scanVars, indexVars, retryVars, tokenVars, dbVars, saveVars, planVars, folderVars, dateVars, recordVars, feedVars>>

exceptLocal == <<cloudVars, scanVars, indexVars, retryVars, tokenVars, dbVars, saveVars, planVars, folderVars, dateVars, recordVars, feedVars>>
exceptCloud == <<localVars, scanVars, indexVars, retryVars, tokenVars, dbVars, saveVars, planVars, folderVars, dateVars, recordVars, feedVars>>
exceptScan == <<localVars, indexVars, retryVars, tokenVars, dbVars, saveVars, planVars, folderVars, dateVars, recordVars, feedVars>>
exceptIndex == <<localVars, cloudVars, scanVars, retryVars, tokenVars, dbVars, saveVars, planVars, folderVars, dateVars, recordVars, feedVars>>
exceptRetry == <<localVars, cloudVars, scanVars, indexVars, tokenVars, dbVars, saveVars, planVars, folderVars, dateVars, recordVars, feedVars>>
exceptToken == <<localVars, cloudVars, scanVars, indexVars, retryVars, dbVars, saveVars, planVars, folderVars, dateVars, recordVars, feedVars>>
exceptDb == <<localVars, cloudVars, scanVars, indexVars, retryVars, tokenVars, saveVars, planVars, folderVars, dateVars, recordVars, feedVars>>
exceptSave == <<localVars, cloudVars, scanVars, indexVars, retryVars, tokenVars, dbVars, planVars, folderVars, dateVars, recordVars, feedVars>>
exceptPlan == <<localVars, cloudVars, scanVars, indexVars, retryVars, tokenVars, dbVars, saveVars, folderVars, dateVars, recordVars, feedVars>>
exceptFolder == <<localVars, cloudVars, scanVars, indexVars, retryVars, tokenVars, dbVars, saveVars, planVars, dateVars, recordVars, feedVars>>
exceptDate == <<localVars, cloudVars, scanVars, indexVars, retryVars, tokenVars, dbVars, saveVars, planVars, folderVars, recordVars, feedVars>>
exceptRecord == <<localVars, cloudVars, scanVars, indexVars, retryVars, tokenVars, dbVars, saveVars, planVars, folderVars, dateVars, feedVars>>
exceptFeed == <<localVars, cloudVars, scanVars, indexVars, retryVars, tokenVars, dbVars, saveVars, planVars, folderVars, dateVars, recordVars>>


EmptyMap == [x \in {} |-> x]
Put(f, k, v) == [x \in (DOMAIN f) \cup {k} |-> IF x = k THEN v ELSE f[x]]
Remove(f, k) == [x \in (DOMAIN f) \ {k} |-> f[x]]
Perms(S) == {s \in [1..Cardinality(S) -> S] : Range(s) = S}

\* OrganizeStats::default()
DefaultStats ==
    [files_scanned |-> 0, files_analyzed |-> 0, files_skipped_duplicates |-> 0,
     files_organized |-> 0, files_failed |-> 0]

(***************************************************************************)
(* Index (src/src/index.rs)                                                *)
(***************************************************************************)
contains_hash(idx, hash) == hash \in DOMAIN idx

\* Variants of add_entry: one that records nothing, one that records the
\* place the file was copied to.
add_entry_Dropped(idx, hash, file_path) == idx

add_entry_DestPath(idx, hash, file_path) ==
    Put(idx, hash, [hash |-> hash, file_path |-> <<"dst", file_path[2]>>])

add_entry(idx, hash, file_path) ==
    Put(idx, hash, [hash |-> hash, file_path |-> file_path])

\* The keys of a map in a fixed order.  (A HashMap iterates in an arbitrary
\* order; the loader inserts entry by entry, so the order is not observable
\* after a load.)
RECURSIVE KeySeq(_)
KeySeq(S) ==
    IF S = {} THEN <<>>
    ELSE LET k == CHOOSE x \in S : \A y \in S : x[2] <= y[2]
         IN  <<k>> \o KeySeq(S \ {k})

RECURSIVE EncodeEntries(_, _)
EncodeEntries(idx, keys) ==
    IF keys = <<>> THEN <<>>
    ELSE LET k == Head(keys)
         IN  <<k, idx[k].hash, idx[k].file_path>> \o EncodeEntries(idx, Tail(keys))

\* bincode::serialize(&Index): the number of entries of the map, then for
\* every entry its key and the two strings of its IndexEntry.
Serialize(idx) ==
    <<<<"len", Cardinality(DOMAIN idx)>>>> \o EncodeEntries(idx, KeySeq(DOMAIN idx))

\* bincode::deserialize succeeds when the length prefix is there and every
\* entry it announces is complete.
CanDeserialize(bytes) ==
    /\ Len(bytes) >= 1
    /\ bytes[1][1] = "len"
    /\ Len(bytes) >= 1 + 3 * bytes[1][2]

\* The first n entries, inserted in file order (a later entry with the same
\* key replaces an earlier one).
RECURSIVE DecodeEntries(_, _)
DecodeEntries(bytes, n) ==
    IF n = 0 THEN EmptyMap
    ELSE Put(DecodeEntries(bytes, n - 1), bytes[3 * n - 1],
             [hash |-> bytes[3 * n], file_path |-> bytes[3 * n + 1]])

\* A variant of the loader that stops after the first entry.
Deserialize_FirstOnly(bytes) ==
    DecodeEntries(bytes, IF bytes[1][2] > 0 THEN 1 ELSE 0)

Deserialize(bytes) == DecodeEntries(bytes, bytes[1][2])

\* A program that builds an index with add_entry, saves it and loads it
\* again (the persistence tests of index.rs).
InitIndex ==
    /\ entries = EmptyMap
    /\ entries_file = <<>>
    /\ entries_loaded = EmptyMap
    /\ ipc = "build"
    /\ inserts = <<>>

IndexAdd ==
    /\ ipc = "build"
    /\ Len(inserts) < MaxInserts
    /\ \E c \in Contents, n \in PhotoNames :
         /\ entries' = add_entry(entries, hash_bytes(c), SrcPath(n))
         /\ inserts' = Append(inserts, <<hash_bytes(c), SrcPath(n)>>)
    /\ UNCHANGED <<entries_file, entries_loaded, ipc>>

\* save_to_file: the entries are written in the order the HashMap yields them.
IndexSave ==
    /\ ipc = "build"
    /\ \E order \in Perms(DOMAIN entries) :
         entries_file' = <<<<"len", Cardinality(DOMAIN entries)>>>>
                             \o EncodeEntries(entries, order)
    /\ ipc' = "saved"
    /\ UNCHANGED <<entries, entries_loaded, inserts>>

\* load_from_file of the file just saved.
IndexLoad ==
    /\ ipc = "saved"
    /\ CanDeserialize(entries_file)
    /\ entries_loaded' = Deserialize(entries_file)
    /\ ipc' = "loaded"
    /\ UNCHANGED <<entries, entries_file, inserts>>

\* The program goes on with the index it loaded.
IndexReopen ==
    /\ ipc = "loaded"
    /\ entries' = entries_loaded
    /\ ipc' = "build"
    /\ UNCHANGED <<entries_file, entries_loaded, inserts>>

IndexUnused == InitIndex

(***************************************************************************)
(* organization.rs                                                         *)
(***************************************************************************)
\* format!("{}/{:02}/{:02}", year, month, day), joined with the basename.
DestFile(date, name) == <<date.year, date.month, date.day, name>>

\* fs::copy(source, dest_file): creates or truncates dest_file and writes the
\* bytes of the source file into it.
fs_copy(tree, target, content) == Put(tree, target, content)

(***************************************************************************)
(* The history of a run.                                                   *)
(***************************************************************************)
NoHistory ==
    [index0 |-> EmptyMap,    \* the index as loaded
     loaded |-> FALSE,       \* the index was loaded
     dest0 |-> EmptyMap,     \* the destination tree when the run started
     file0 |-> [exists |-> FALSE, bytes |-> <<>>],  \* index file at the start
     copied |-> {},          \* records whose copy succeeded
     failed |-> {},          \* records whose Place failed
     hash_failed |-> {},     \* files whose hashing failed
     committed |-> FALSE,    \* the run reached Stage 6 (save index)
     data |-> <<>>,          \* the bytes Stage 6 set out to write
     prev_ok |-> FALSE,      \* the previous run returned Ok
     prev_placed |-> FALSE,  \* ... and none of its records failed in Place
     prev_hashed |-> FALSE,  \* ... and it hashed every file it scanned
     unchanged |-> FALSE]    \* the source directory is as the previous run saw it

InitLocal ==
    /\ \E S \in SUBSET PhotoNames : \E f \in [S -> FileVals] :
         source = [n \in S \cup OtherNames |->
                     IF n \in S THEN f[n]
                     ELSE [content |-> 1, mtime |-> CHOOSE d \in Dates : TRUE]]
    /\ dest = EmptyMap
    /\ index_file = [exists |-> FALSE, bytes |-> <<>>]
    /\ dry_run = FALSE
    /\ pc = "idle"
    /\ result = "none"
    /\ index = EmptyMap
    /\ files = <<>>
    /\ records = <<>>
    /\ unique_records = <<>>
    /\ stats = DefaultStats
    /\ errors = <<>>
    /\ runs = 0
    /\ edits = 0
    /\ h = NoHistory


(***************************************************************************)
(* Orchestrator (src/src/organize.rs)                                      *)
(***************************************************************************)
\* run returns Ok(stats).
Finish ==
    /\ pc' = "done"
    /\ result' = "ok"

\* run returns Err, or the process dies: nothing of the Orchestrator is
\* handed to the caller.  The history keeps what the run found on disk.
Abort(res) ==
    /\ pc' = "done"
    /\ result' = res
    /\ index' = EmptyMap
    /\ files' = <<>>
    /\ records' = <<>>
    /\ unique_records' = <<>>
    /\ stats' = DefaultStats
    /\ errors' = <<>>
    /\ h' = [NoHistory EXCEPT !.dest0 = h.dest0, !.file0 = h.file0,
                              !.committed = h.committed, !.data = h.data]

\* main: a new process; Orchestrator::new(ctx) with default stats.
StartRun ==
    /\ pc = "idle"
    /\ runs < MaxRuns
    /\ runs' = runs + 1
    /\ \E flag \in BOOLEAN : dry_run' = flag
    /\ pc' = "load"
    /\ h' = [h EXCEPT !.dest0 = dest, !.file0 = index_file]
    /\ UNCHANGED <<source, dest, index_file, result, index, files, records,
                   unique_records, stats, errors, edits>>

\* main returns: the process ends and its memory is gone.  The history keeps
\* what the next run's properties need to know about this one.
Exit ==
    /\ pc = "done"
    /\ pc' = "idle"
    /\ result' = "none"
    /\ index' = EmptyMap
    /\ files' = <<>>
    /\ records' = <<>>
    /\ unique_records' = <<>>
    /\ stats' = DefaultStats
    /\ errors' = <<>>
    /\ h' = [NoHistory EXCEPT
               !.prev_ok = (result = "ok"),
               !.prev_placed = (result = "ok" /\ stats.files_failed = 0),
               !.prev_hashed = (result = "ok"
                                /\ stats.files_analyzed = stats.files_scanned),
               !.unchanged = TRUE]
    /\ UNCHANGED <<source, dest, index_file, dry_run, runs, edits>>

\* A variant of Stage 1 that starts from an empty index when the file cannot
\* be decoded.
LoadIndex_Lenient ==
    /\ pc = "load"
    /\ LET loaded == IF index_file.exists /\ CanDeserialize(index_file.bytes)
                     THEN Deserialize(index_file.bytes)
                     ELSE EmptyMap
       IN  /\ index' = loaded
           /\ h' = [h EXCEPT !.loaded = TRUE, !.index0 = loaded]
    /\ pc' = "scan"
    /\ UNCHANGED <<source, dest, index_file, dry_run, result, files, records,
                   unique_records, stats, errors, runs, edits>>

\* Stage 1, load_index: a missing file gives an empty index; a file that
\* cannot be read or deserialized ends the run with an error.
LoadIndex ==
    /\ pc = "load"
    /\ \/ /\ ~index_file.exists
          /\ index' = EmptyMap
          /\ h' = [h EXCEPT !.loaded = TRUE, !.index0 = EmptyMap]
          /\ pc' = "scan"
          /\ UNCHANGED <<result, files, records, unique_records, stats, errors>>
       \/ /\ index_file.exists
          /\ CanDeserialize(index_file.bytes)
          /\ index' = Deserialize(index_file.bytes)
          /\ h' = [h EXCEPT !.loaded = TRUE, !.index0 = Deserialize(index_file.bytes)]
          /\ pc' = "scan"
          /\ UNCHANGED <<result, files, records, unique_records, stats, errors>>
       \/ /\ index_file.exists
          /\ ~CanDeserialize(index_file.bytes)
          /\ Abort("err")
       \/ /\ index_file.exists        \* fs::read fails
          /\ Abort("err")
    /\ UNCHANGED <<source, dest, index_file, dry_run, runs, edits>>

\* Stage 2, scan_source: the photo files of the source directory, in the
\* order read_dir yields them; an empty scan returns Ok at once.
ScanSource ==
    /\ pc = "scan"
    /\ \/ Abort("err")                \* read_dir fails
       \/ \E order \in Perms({n \in DOMAIN source : ext_lower(n) \in photo_extensions}) :
            /\ files' = [i \in 1..Len(order) |-> SrcPath(order[i])]
            /\ stats' = [stats EXCEPT !.files_scanned = Len(order)]
            /\ IF order = <<>>
               THEN Finish
               ELSE pc' = "analyze" /\ UNCHANGED result
            /\ UNCHANGED <<index, records, unique_records, errors, h>>
    /\ UNCHANGED <<source, dest, index_file, dry_run, runs, edits>>

\* The FileRecord of a hashed file; extract_date_safe gives the mtime date,
\* or None when the metadata cannot be read.
FileRecord(path, dated) ==
    [path |-> path,
     hash |-> hash_bytes(source[path[2]].content),
     date |-> IF dated THEN Some(source[path[2]].mtime) ELSE None,
     location |-> None]

RECURSIVE FilterMap(_, _, _)
FilterMap(paths, unhashed, undated) ==
    IF paths = <<>> THEN <<>>
    ELSE IF Head(paths) \in unhashed
         THEN FilterMap(Tail(paths), unhashed, undated)
         ELSE <<FileRecord(Head(paths), Head(paths) \notin undated)>>
                \o FilterMap(Tail(paths), unhashed, undated)

\* Stage 3, analyze_files: a file whose hashing fails is dropped.
AnalyzeFiles ==
    /\ pc = "analyze"
    /\ \E unhashed \in SUBSET Range(files) :
       \E undated \in SUBSET (Range(files) \ unhashed) :
         /\ records' = FilterMap(files, unhashed, undated)
         /\ stats' = [stats EXCEPT !.files_analyzed = Len(records')]
         /\ h' = [h EXCEPT !.hash_failed = unhashed]
    /\ pc' = "dedup"
    /\ UNCHANGED <<source, dest, index_file, dry_run, result, index, files,
                   unique_records, errors, runs, edits>>

\* A variant of the duplicate test that looks a record up by its path.
IsDuplicate_ByPath(idx, record) ==
    \E k \in DOMAIN idx : idx[k].file_path = record.path /\ k # record.hash

\* The filter predicate of Stage 4.
IsDuplicate(idx, record) == contains_hash(idx, record.hash)

\* Stage 4, deduplicate against the loaded index.
Deduplicate ==
    /\ pc = "dedup"
    /\ unique_records' = SelectSeq(records, LAMBDA r : ~IsDuplicate(index, r))
    /\ stats' = [stats EXCEPT !.files_skipped_duplicates =
                    @ + SeqSum(records, LAMBDA r : IsDuplicate(index, r))]
    /\ pc' = "place"
    /\ UNCHANGED <<source, dest, index_file, dry_run, result, index, files,
                   records, errors, runs, edits, h>>


\* organize_by_date: the destination tree after a successful copy.
organize_by_date(tree, record, date) ==
    fs_copy(tree, DestFile(date, record.path[2]), source[record.path[2]].content)

\* organize_file: a record without a date cannot be organized.
CanOrganize(record) == IsSome(record.date)

\* A variant of Stage 5 that gives up the run at the first record that
\* cannot be placed.
OrganizeFile_FailFast ==
    /\ pc = "place"
    /\ unique_records # <<>>
    /\ LET record == Head(unique_records)
       IN  \/ /\ Abort("err")
              /\ UNCHANGED dest
           \/ /\ CanOrganize(record)
              /\ dest' = organize_by_date(dest, record, Unwrap(record.date))
              /\ stats' = [stats EXCEPT !.files_organized = @ + 1]
              /\ index' = add_entry(index, record.hash, record.path)
              /\ h' = [h EXCEPT !.copied = @ \cup {record}]
              /\ unique_records' = Tail(unique_records)
              /\ UNCHANGED <<errors, pc, result, files, records>>
    /\ UNCHANGED <<source, index_file, dry_run, runs, edits>>

\* Stage 5, one iteration of the loop over unique_records.
OrganizeFile ==
    /\ pc = "place"
    /\ unique_records # <<>>
    /\ LET record == Head(unique_records)
           Ok == /\ stats' = [stats EXCEPT !.files_organized = @ + 1]
                 /\ index' = add_entry(index, record.hash, record.path)
                 /\ h' = [h EXCEPT !.copied = @ \cup {record}]
                 /\ UNCHANGED errors
           Err == /\ stats' = [stats EXCEPT !.files_failed = @ + 1]
                  /\ errors' = Append(errors, record.path)
                  /\ h' = [h EXCEPT !.failed = @ \cup {record}]
                  /\ UNCHANGED <<index, dest>>
       IN  \/ /\ ~CanOrganize(record)
              /\ Err
           \/ /\ CanOrganize(record)       \* create_dir_all or copy fails
              /\ Err
           \/ /\ CanOrganize(record)
              /\ dest' = organize_by_date(dest, record, Unwrap(record.date))
              /\ Ok
    /\ unique_records' = Tail(unique_records)
    /\ UNCHANGED <<source, index_file, dry_run, pc, result, files, records,
                   runs, edits>>

\* Stage 6, save_to_file, first half of fs::write: the file at index_path is
\* created or truncated.
SaveOpen ==
    /\ pc = "place"
    /\ unique_records = <<>>
    /\ \/ /\ Abort("err")              \* the file cannot be opened
          /\ UNCHANGED index_file
       \/ /\ index_file' = [exists |-> TRUE, bytes |-> <<>>]
          /\ pc' = "write"
          /\ h' = [h EXCEPT !.committed = TRUE, !.data = Serialize(index)]
          /\ UNCHANGED <<result, index, files, records, unique_records,
                         stats, errors>>
    /\ UNCHANGED <<source, dest, dry_run, runs, edits>>

\* Stage 6, second half of fs::write: the serialized index is written; a
\* write error leaves what was written so far.
SaveWrite ==
    /\ pc = "write"
    /\ \/ /\ index_file' = [exists |-> TRUE, bytes |-> Serialize(index)]
          /\ Finish
          /\ UNCHANGED <<index, files, records, unique_records, stats,
                         errors, h>>
       \/ \E part \in Prefixes(Serialize(index)) :
            /\ index_file' = [exists |-> TRUE, bytes |-> part]
            /\ Abort("err")
    /\ UNCHANGED <<source, dest, dry_run, runs, edits>>

\* The process is killed (or the machine stops) inside fs::write: any prefix
\* of the data may have reached the file.
Crash ==
    /\ pc = "write"
    /\ \E part \in Prefixes(Serialize(index)) :
         index_file' = [exists |-> TRUE, bytes |-> part]
    /\ Abort("crashed")
    /\ UNCHANGED <<source, dest, dry_run, runs, edits>>

\* Between two runs the user adds, replaces or removes a photo of the source
\* directory.
EditSource ==
    /\ pc = "idle"
    /\ 0 < runs
    /\ runs < MaxRuns
    /\ edits < MaxEdits
    /\ edits' = edits + 1
    /\ \E n \in PhotoNames :
         \/ /\ n \in DOMAIN source
            /\ source' = Remove(source, n)
         \/ \E f \in FileVals :
              /\ n \in DOMAIN source => source[n] # f
              /\ source' = Put(source, n, f)
    /\ h' = [h EXCEPT !.unchanged = FALSE]
    /\ UNCHANGED <<dest, index_file, dry_run, pc, result, index, files,
                   records, unique_records, stats, errors, runs>>


(***************************************************************************)
(* Properties of the local pipeline.                                       *)
(***************************************************************************)
\* A run has returned Ok(stats).
RunOk == pc = "done" /\ result = "ok"

\* The run follows, on an unchanged source directory, a run that returned Ok
\* and in which no record failed in Place.
SecondRunUnchanged == RunOk /\ h.prev_ok /\ h.prev_placed /\ h.unchanged

\* C1 as stated: the second of two runs on an unchanged source (every copy
\* of the first succeeded) organizes nothing, skips N = files_scanned files
\* and leaves the destination tree as the first run left it.
C1_AsStated ==
    SecondRunUnchanged =>
        /\ stats.files_organized = 0
        /\ stats.files_skipped_duplicates = stats.files_scanned
        /\ dest = h.dest0

\* C1 amended: when the first run also hashed every file it scanned, the
\* second run organizes nothing, skips every file it analyzed (all N scanned
\* files when no hashing fails) and leaves the destination tree unchanged.
C1_Idempotent ==
    (SecondRunUnchanged /\ h.prev_hashed) =>
        /\ stats.files_organized = 0
        /\ stats.files_skipped_duplicates = stats.files_analyzed
        /\ (h.hash_failed = {} =>
              stats.files_skipped_duplicates = stats.files_scanned)
        /\ dest = h.dest0

C1_Witness ==
    /\ SecondRunUnchanged
    /\ h.prev_hashed
    /\ stats.files_scanned = 2
    /\ stats.files_skipped_duplicates = 2
    /\ DOMAIN dest # {}

\* Dedup has run in the current run.
AfterDedup == pc \in {"place", "write"} \/ (RunOk /\ files # <<>>)

\* The records Place has taken or is still to take.
PassedOn == Range(unique_records) \cup h.copied \cup h.failed

\* C2: a record whose digest is a key of the loaded index is dropped, counted
\* in files_skipped_duplicates and never copied; every other record is
\* passed on to Place.
C2_Dedup ==
    AfterDedup =>
        /\ \A r \in Range(records) :
             r.hash \in DOMAIN h.index0 <=> r \notin PassedOn
        /\ stats.files_skipped_duplicates =
             Cardinality({r \in Range(records) : r.hash \in DOMAIN h.index0})
        /\ \A r \in h.copied : r.hash \notin DOMAIN h.index0
        /\ PassedOn \subseteq Range(records)

C2_Witness ==
    /\ RunOk
    /\ stats.files_skipped_duplicates = 1
    /\ stats.files_organized = 1

\* C21: no two records that reach Place in one run carry the same digest; of
\* several source files with the same content at most one is copied in a run.
C21_OneDigestPerRun ==
    /\ AfterDedup =>
         \A r1, r2 \in PassedOn : r1.hash = r2.hash => r1 = r2
    /\ \A r1, r2 \in h.copied : r1.hash = r2.hash => r1 = r2

\* C3: a destination file that exists when a run starts still has its bytes
\* while and after the run.
C3_NoOverwrite ==
    \A p \in DOMAIN h.dest0 : p \in DOMAIN dest /\ dest[p] = h.dest0[p]

\* The digests of the records copied in this run.
CopiedDigests == {r.hash : r \in h.copied}

\* C4: after a run that reached Commit and returned Ok, the persisted index
\* holds the loaded entries and one entry for each digest copied in the run,
\* mapped to the source path of a copied record; nothing else.
C4_Commit ==
    (RunOk /\ h.committed) =>
        /\ index_file.exists
        /\ CanDeserialize(index_file.bytes)
        /\ LET saved == Deserialize(index_file.bytes)
           IN  /\ DOMAIN saved = DOMAIN h.index0 \cup CopiedDigests
               /\ \A d \in DOMAIN h.index0 : saved[d] = h.index0[d]
               /\ \A d \in CopiedDigests :
                    \E r \in h.copied :
                      saved[d] = [hash |-> r.hash, file_path |-> r.path]
               /\ \A r \in h.failed :
                    r.hash \in DOMAIN saved =>
                      \E c \in h.copied : c.hash = r.hash

C4_Witness ==
    /\ RunOk
    /\ h.committed
    /\ DOMAIN h.index0 # {}
    /\ h.copied # {}

\* C5: a run started with dry_run copies nothing to the destination and
\* does not write the index file.
C5_DryRun ==
    (dry_run /\ pc # "idle") => (dest = h.dest0 /\ index_file = h.file0)

\* C6: after a crash during save the index file is the complete previous
\* file or the complete new one.
C6_AtomicSave ==
    (pc = "done" /\ result = "crashed") =>
        \/ index_file = h.file0
        \/ index_file = [exists |-> TRUE, bytes |-> h.data]


(***************************************************************************)
(* ------------------------- CLOUD PIPELINE ----------------------------   *)
(* src/src/onedrive.rs                                                     *)
(***************************************************************************)

\* What the Graph API server hands out.
RootDelta == "https://graph.microsoft.com/v1.0/me/drive/root/delta?$select=..."
ServerNextLinks == {"nextLink-1"}
ServerDeltaLinks == {"deltaLink-1", "deltaLink-2"}

TakenDate == [year |-> 2023, month |-> 7, day |-> 15]
DestFolder == "Organized"

\* The decimal digits of a number, and format!("{:02}").
RECURSIVE Digits(_)
Digits(n) == IF n < 10 THEN <<n>> ELSE Digits(n \div 10) \o <<n % 10>>
Pad2(n) == IF n < 10 THEN <<0, n>> ELSE Digits(n)

\* format!("{}/{}/{:02}/{:02}", dest_folder, year, month, day), as the
\* segments split('/') gives back.
DestPath(dest_folder, date) ==
    <<dest_folder, Digits(date.year), Pad2(date.month), Pad2(date.day)>>

\* A folder's id stands for the folder at that path from the drive root;
\* the root itself is the empty path.
RootId == <<>>
OtherFolder == <<"Camera Roll">>

\* DateTime::parse_from_rfc3339(s).ok().map(|dt| dt.naive_local().date())
ParseTakenDate(s) == IF s.rfc3339 THEN Some(s.date) ELSE None

\* The drive items a delta page may carry.
PhotoItem(id, hash, taken, parent) ==
    [id |-> id,
     photo |-> Some([taken_date_time |-> taken,
                     camera_make |-> None, camera_model |-> None]),
     location |-> None,
     file |-> Some([mime_type |-> Some("image/jpeg"), hashes |-> hash]),
     deleted |-> None,
     parent_reference |-> Some([id |-> Some(parent)])]

DeletedItem(id, hash) ==
    [id |-> id,
     photo |-> None,
     location |-> None,
     file |-> IF IsSome(hash)
              THEN Some([mime_type |-> None, hashes |-> hash])
              ELSE None,
     deleted |-> Some("{}"),
     parent_reference |-> None]

OtherItem(id) ==
    [id |-> id,
     photo |-> None,
     location |-> None,
     file |-> Some([mime_type |-> Some("text/plain"), hashes |-> Some("qx-1")]),
     deleted |-> None,
     parent_reference |-> Some([id |-> Some(OtherFolder)])]

Taken == Some([rfc3339 |-> TRUE, date |-> TakenDate])

DriveItems ==
    {PhotoItem("item-1", Some("qx-1"), Taken, OtherFolder),
     PhotoItem("item-2", Some("qx-1"), Taken, OtherFolder),
     PhotoItem("item-2", Some("qx-2"), Taken, OtherFolder),
     PhotoItem("item-2", Some("qx-2"), None, OtherFolder),
     PhotoItem("item-1", None, Taken, OtherFolder),
     PhotoItem("item-1", Some("qx-1"), Taken, DestPath(DestFolder, TakenDate)),
     DeletedItem("item-1", None),
     DeletedItem("item-1", Some("qx-1")),
     OtherItem("item-2")}

\* and_then over an Option.
AndThen(o, F(_)) == IF IsSome(o) THEN F(Unwrap(o)) ELSE None

camera_of(photo) ==
    IF IsSome(photo.camera_make) /\ IsSome(photo.camera_model)
    THEN Some(<<Unwrap(photo.camera_make), " ", Unwrap(photo.camera_model)>>)
    ELSE IF IsSome(photo.camera_make)
         THEN photo.camera_make
         ELSE None

\* (Some(lat), Some(lon)) => Some((lat, lon)), _ => None
location_of(l) ==
    IF IsSome(l.latitude) /\ IsSome(l.longitude)
    THEN Some(<<Unwrap(l.latitude), Unwrap(l.longitude)>>)
    ELSE None

drive_item_to_record(item) ==
    [item_id |-> item.id,
     taken_date |-> AndThen(AndThen(item.photo, LAMBDA ph : ph.taken_date_time),
                            ParseTakenDate),
     location |-> AndThen(item.location, location_of),
     quick_xor_hash |-> AndThen(item.file, LAMBDA f : f.hashes),
     camera |-> AndThen(item.photo, camera_of),
     parent_id |-> AndThen(item.parent_reference, LAMBDA r : r.id),
     deleted |-> IsSome(item.deleted)]

\* scan_photos keeps image files, items with a photo facet and deleted items.
ImageMimeTypes == {"image/jpeg", "image/png"}     \* m.starts_with("image/")

is_image(item) ==
    \/ /\ IsSome(item.file)
       /\ IsSome(Unwrap(item.file).mime_type)
       /\ Unwrap(Unwrap(item.file).mime_type) \in ImageMimeTypes
    \/ IsSome(item.photo)

Keep(item) == is_image(item) \/ IsSome(item.deleted)

RECURSIVE PageRecords(_)
PageRecords(page) ==
    IF page = <<>> THEN <<>>
    ELSE IF Keep(Head(page))
         THEN <<drive_item_to_record(Head(page))>> \o PageRecords(Tail(page))
         ELSE PageRecords(Tail(page))

\* DeltaState::default() and PipelineStats::default()
DefaultDeltaState == [delta_link |-> None, seen_hashes |-> EmptyMap]
DefaultPipelineStats ==
    [total_scanned |-> 0, unique_photos |-> 0, duplicates |-> 0,
     organized |-> 0, no_date |-> 0]

NoCloudHistory ==
    [file0 |-> [exists |-> FALSE, state |-> DefaultDeltaState],
     seen0 |-> EmptyMap,      \* seen_hashes as loaded
     raw |-> 0,               \* drive items received so far in the scan
     aborted |-> "no",        \* the stage in which the run returned Err
     unresolved |-> {}]       \* the records whose folder could not be resolved

InitCloud ==
    /\ delta_file = [exists |-> FALSE, state |-> DefaultDeltaState]
    /\ folders = {}
    /\ cpc = "idle"
    /\ cresult = "none"
    /\ config = [dry_run |-> FALSE, dest_folder |-> DestFolder]
    /\ delta_state = DefaultDeltaState
    /\ url = ""
    /\ items = <<>>
    /\ pages = 0
    /\ new_delta_link = ""
    /\ unique = <<>>
    /\ cstats = DefaultPipelineStats
    /\ folder_cache = EmptyMap
    /\ posts = {}
    /\ moves = {}
    /\ cruns = 0
    /\ ch = NoCloudHistory


\* The pipeline returns Err: nothing is handed to the caller.  The requests
\* already issued stay issued.
CloudAbort ==
    /\ cpc' = "done"
    /\ cresult' = "err"
    /\ delta_state' = DefaultDeltaState
    /\ url' = ""
    /\ items' = <<>>
    /\ pages' = 0
    /\ new_delta_link' = ""
    /\ unique' = <<>>
    /\ cstats' = DefaultPipelineStats
    /\ folder_cache' = EmptyMap
    /\ ch' = [ch EXCEPT !.seen0 = EmptyMap, !.raw = 0, !.aborted = cpc,
                        !.unresolved = {}]

\* main, OneDriveAction::Organize: a new process builds the pipeline.
CloudStart ==
    /\ cpc = "idle"
    /\ cruns < MaxRuns
    /\ cruns' = cruns + 1
    /\ \E flag \in BOOLEAN :
         config' = [dry_run |-> flag, dest_folder |-> DestFolder]
    /\ cpc' = "load"
    /\ ch' = [NoCloudHistory EXCEPT !.file0 = delta_file]
    /\ UNCHANGED <<delta_file, folders, cresult, delta_state, url, items,
                   pages, new_delta_link, unique, cstats, folder_cache,
                   posts, moves>>

\* A variant that always starts a full scan.
StartUrl_Root(state) == RootDelta

\* scan_photos: the URL the scan starts from.
StartUrl(state) ==
    IF IsSome(state.delta_link) THEN Unwrap(state.delta_link) ELSE RootDelta

\* DeltaState::load, then the head of scan_photos.
CloudLoadState ==
    /\ cpc = "load"
    /\ LET loaded == IF delta_file.exists THEN delta_file.state
                     ELSE DefaultDeltaState
       IN  /\ delta_state' = loaded
           /\ url' = StartUrl(loaded)
           /\ ch' = [ch EXCEPT !.seen0 = loaded.seen_hashes]
    /\ cpc' = "scan"
    /\ UNCHANGED <<delta_file, folders, cresult, config, items, pages,
                   new_delta_link, unique, cstats, folder_cache, posts,
                   moves, cruns>>

\* The pages of at most n drive items.
RECURSIVE SeqsUpTo(_, _)
SeqsUpTo(S, n) ==
    IF n = 0 THEN {<<>>}
    ELSE SeqsUpTo(S, n - 1)
         \cup {Append(q, x) : q \in {t \in SeqsUpTo(S, n - 1) : Len(t) = n - 1},
                              x \in S}

\* scan_photos, one iteration of the loop: fetch a page, keep its photo and
\* deleted items, then follow @odata.nextLink, or stop at @odata.deltaLink,
\* or stop when the response carries neither.
CloudFetchPage ==
    /\ cpc = "scan"
    /\ \/ /\ CloudAbort                  \* get_json fails
          /\ UNCHANGED <<config>>
       \/ /\ url # ""
          /\ \E page \in SeqsUpTo(DriveItems, MaxItems - ch.raw) :
               /\ items' = items \o PageRecords(page)
               /\ ch' = [ch EXCEPT !.raw = @ + Len(page)]
               /\ pages' = pages + 1
               /\ \/ /\ pages + 1 < MaxPages
                     /\ \E next \in ServerNextLinks : url' = next
                     /\ UNCHANGED <<new_delta_link, cpc, cstats>>
                  \/ /\ \E delta \in ServerDeltaLinks : new_delta_link' = delta
                     /\ cstats' = [cstats EXCEPT !.total_scanned = Len(items')]
                     /\ cpc' = "dedup"
                     /\ UNCHANGED url
                  \/ /\ cstats' = [cstats EXCEPT !.total_scanned = Len(items')]
                     /\ cpc' = "dedup"
                     /\ UNCHANGED <<new_delta_link, url>>
          /\ UNCHANGED <<cresult, config, delta_state, unique, folder_cache>>
    /\ UNCHANGED <<delta_file, folders, posts, moves, cruns>>

\* A variant of the loop body that consults only what the scan itself has
\* put aside, not the digests of earlier runs.
DedupRecord_ThisScan(st, record, i) ==
    IF record.deleted
    THEN IF IsSome(record.quick_xor_hash)
         THEN [st EXCEPT !.seen = Remove(@, Unwrap(record.quick_xor_hash))]
         ELSE st
    ELSE IF IsSome(record.quick_xor_hash)
         THEN IF \E k \in Range(st.unique) :
                    items[k].quick_xor_hash = record.quick_xor_hash
              THEN [st EXCEPT !.duplicates = @ + 1]
              ELSE [st EXCEPT
                      !.seen = Put(@, Unwrap(record.quick_xor_hash), record.item_id),
                      !.unique = Append(@, i)]
         ELSE [st EXCEPT !.unique = Append(@, i)]

\* Stage 2, the body of the loop for the record at position i.
DedupRecord(st, record, i) ==
    IF record.deleted
    THEN IF IsSome(record.quick_xor_hash)
         THEN [st EXCEPT !.seen = Remove(@, Unwrap(record.quick_xor_hash))]
         ELSE st
    ELSE IF IsSome(record.quick_xor_hash)
         THEN IF Unwrap(record.quick_xor_hash) \in DOMAIN st.seen
              THEN [st EXCEPT !.duplicates = @ + 1]
              ELSE [st EXCEPT
                      !.seen = Put(@, Unwrap(record.quick_xor_hash), record.item_id),
                      !.unique = Append(@, i)]
         ELSE [st EXCEPT !.unique = Append(@, i)]

RECURSIVE DedupLoop(_, _, _)
DedupLoop(st, recs, i) ==
    IF i > Len(recs) THEN st
    ELSE DedupLoop(DedupRecord(st, recs[i], i), recs, i + 1)

\* Stage 2, deduplicate against seen_hashes.
CloudDeduplicate ==
    /\ cpc = "dedup"
    /\ LET st == DedupLoop([seen |-> delta_state.seen_hashes, unique |-> <<>>,
                            duplicates |-> cstats.duplicates], items, 1)
       IN  /\ delta_state' = [delta_state EXCEPT !.seen_hashes = st.seen]
           /\ unique' = st.unique
           /\ cstats' = [cstats EXCEPT !.duplicates = st.duplicates,
                                       !.unique_photos = Len(st.unique)]
    /\ cpc' = "root"
    /\ UNCHANGED <<delta_file, folders, cresult, config, url, items, pages,
                   new_delta_link, folder_cache, posts, moves, cruns, ch>>

\* Stage 3, get_root_id.
\* A variant that saves the delta state before it gives up.
CloudGetRootId_SaveFirst ==
    /\ cpc = "root"
    /\ delta_file' = [exists |-> TRUE, state |-> delta_state]
    /\ CloudAbort
    /\ UNCHANGED <<folders, config, posts, moves, cruns>>

CloudGetRootId ==
    /\ cpc = "root"
    /\ \/ /\ CloudAbort
       \/ /\ cpc' = "organize"
          /\ UNCHANGED <<cresult, delta_state, url, items, pages,
                         new_delta_link, unique, cstats, folder_cache, ch>>
    /\ UNCHANGED <<delta_file, folders, config, posts, moves, cruns>>

\* get_or_create_folder: what a call may give.  The lookup finds the folder
\* when it exists; when the lookup fails, for whatever reason, a create
\* request is sent, which succeeds only when the folder does not exist.
get_or_create_folder(parent_id, folder_name, existing) ==
    LET path == Append(parent_id, folder_name)
    IN  {[ok |-> TRUE, id |-> path, folders |-> existing, posted |-> {}] :
            x \in {path} \cap existing}
        \cup {[ok |-> TRUE, id |-> path, folders |-> existing \cup {path},
               posted |-> {path}] : x \in {path} \ existing}
        \cup {[ok |-> FALSE, id |-> path, folders |-> existing,
               posted |-> {path}]}

\* ensure_hierarchy: walk the segments, asking the server for every
\* cumulative path that is not in the cache.
RECURSIVE ensure_hierarchy(_, _, _, _, _, _)
ensure_hierarchy(current_id, cumulative, segments, cache, existing, posted) ==
    IF segments = <<>>
    THEN {[ok |-> TRUE, id |-> current_id, cache |-> cache,
           folders |-> existing, posts |-> posted]}
    ELSE LET path == Append(cumulative, Head(segments))
         IN  IF path \in DOMAIN cache
             THEN ensure_hierarchy(cache[path], path, Tail(segments), cache,
                                   existing, posted)
             ELSE UNION {
                    IF g.ok
                    THEN ensure_hierarchy(g.id, path, Tail(segments),
                                          Put(cache, path, g.id), g.folders,
                                          posted \cup g.posted)
                    ELSE {[ok |-> FALSE, id |-> current_id, cache |-> cache,
                           folders |-> g.folders, posts |-> posted \cup g.posted]}
                    : g \in get_or_create_folder(current_id, Head(segments), existing)}

\* A variant that never skips.
already_there_Never(record, dest_id) == FALSE

\* The record is already in the folder it would be moved to.
already_there(record, dest_id) ==
    IsSome(record.parent_id) /\ Unwrap(record.parent_id) = dest_id

\* Stage 4, one iteration of the loop over the unique records.
CloudOrganize ==
    /\ cpc = "organize"
    /\ unique # <<>>
    /\ LET ref == Head(unique)
           record == items[ref]
       IN  IF ~IsSome(record.taken_date)
           THEN /\ cstats' = [cstats EXCEPT !.no_date = @ + 1]
                /\ UNCHANGED <<folders, folder_cache, posts, moves, ch>>
           ELSE IF config.dry_run
           THEN /\ cstats' = [cstats EXCEPT !.organized = @ + 1]
                /\ UNCHANGED <<folders, folder_cache, posts, moves, ch>>
           ELSE \E o \in ensure_hierarchy(RootId, <<>>,
                            DestPath(config.dest_folder, Unwrap(record.taken_date)),
                            folder_cache, folders, posts) :
                  /\ folders' = o.folders
                  /\ folder_cache' = o.cache
                  /\ posts' = o.posts
                  /\ ch' = IF o.ok THEN ch
                           ELSE [ch EXCEPT !.unresolved = @ \cup {ref}]
                  /\ IF ~o.ok \/ already_there(record, o.id)
                     THEN UNCHANGED <<cstats, moves>>
                     ELSE \/ /\ moves' = moves \cup
                                  {[ref |-> ref, item_id |-> record.item_id,
                                    parent |-> o.id, ok |-> TRUE]}
                             /\ cstats' = [cstats EXCEPT !.organized = @ + 1]
                          \/ /\ moves' = moves \cup
                                  {[ref |-> ref, item_id |-> record.item_id,
                                    parent |-> o.id, ok |-> FALSE]}
                             /\ UNCHANGED cstats
    /\ unique' = Tail(unique)
    /\ UNCHANGED <<delta_file, cpc, cresult, config, delta_state, url, items,
                   pages, new_delta_link, cruns>>

\* Stage 5: the cursor of the scan is stored and the state is saved.
CloudPersist ==
    /\ cpc = "organize"
    /\ unique = <<>>
    /\ \/ /\ CloudAbort                   \* DeltaState::save fails
          /\ UNCHANGED delta_file
       \/ /\ delta_state' = [delta_state EXCEPT !.delta_link = Some(new_delta_link)]
          /\ delta_file' = [exists |-> TRUE, state |-> delta_state']
          /\ cpc' = "done"
          /\ cresult' = "ok"
          /\ UNCHANGED <<url, items, pages, new_delta_link, unique, cstats,
                         folder_cache, ch>>
    /\ UNCHANGED <<folders, config, posts, moves, cruns>>

\* main returns: the process ends.
CloudExit ==
    /\ cpc = "done"
    /\ cpc' = "idle"
    /\ cresult' = "none"
    /\ delta_state' = DefaultDeltaState
    /\ url' = ""
    /\ items' = <<>>
    /\ pages' = 0
    /\ new_delta_link' = ""
    /\ unique' = <<>>
    /\ cstats' = DefaultPipelineStats
    /\ folder_cache' = EmptyMap
    /\ posts' = {}
    /\ moves' = {}
    /\ ch' = NoCloudHistory
    /\ UNCHANGED <<delta_file, folders, config, cruns>>

(***************************************************************************)
(* Properties of the OneDrive pipeline.                                    *)
(***************************************************************************)
CloudRunOk == cpc = "done" /\ cresult = "ok"

\* C7 as stated: a dry run that returns Ok has issued no move and no folder
\* create, and the persisted delta state is what it was before the run.
C7_DryRunNoEffect ==
    (config.dry_run /\ CloudRunOk)
        => (moves = {} /\ posts = {} /\ delta_file = ch.file0)

\* The scan is over and stage 2 has run.
CloudAfterDedup == cpc \in {"root", "organize"} \/ CloudRunOk

\* The records of the scan that carry digest q.
Carries(i, q) ==
    IsSome(items[i].quick_xor_hash) /\ Unwrap(items[i].quick_xor_hash) = q

\* Digest q is in seen_hashes when stage 2 reaches the record at position i:
\* the last record before i that carries q is not a deleted one, or no
\* record before i carries q and the previous runs left q in the map.
SeenBefore(i, q) ==
    \/ \E j \in 1..(i - 1) :
         /\ Carries(j, q) /\ ~items[j].deleted
         /\ \A k \in (j + 1)..(i - 1) : ~(Carries(k, q) /\ items[k].deleted)
    \/ /\ q \in DOMAIN ch.seen0
       /\ \A k \in 1..(i - 1) : ~Carries(k, q)

KnownDigest(i) ==
    /\ ~items[i].deleted
    /\ IsSome(items[i].quick_xor_hash)
    /\ SeenBefore(i, Unwrap(items[i].quick_xor_hash))

ToPlacement(i) == ~items[i].deleted /\ ~KnownDigest(i)

C9_DeletedForgotten ==
    CloudRunOk =>
        \A q \in DOMAIN ch.seen0 :
            ((\E i \in 1..Len(items) :
                 items[i].deleted /\ items[i].item_id = ch.seen0[q])
               /\ \A i \in 1..Len(items) : ~(Carries(i, q) /\ ~items[i].deleted))
              => q \notin DOMAIN delta_file.state.seen_hashes

\* C10 as stated: the persisted cursor is absent or a cursor the server
\* issued as @odata.deltaLink.
C10_ServerCursor ==
    delta_file.exists =>
        \/ delta_file.state.delta_link = None
        \/ /\ IsSome(delta_file.state.delta_link)
           /\ Unwrap(delta_file.state.delta_link) \in ServerDeltaLinks

\* The index file is there and bincode cannot decode it.
Undecodable == index_file.exists /\ ~CanDeserialize(index_file.bytes)

\* C12: Stage 1 on a missing index file starts the run from an empty index
\* and goes on to the scan; Stage 1 on a file that cannot be deserialized
\* ends the run with an error before the scan, with the destination and the
\* index file as they were.
C12_LoadIndex ==
    [][/\ (pc = "load" /\ ~index_file.exists)
            => (pc' = "scan" /\ index' = EmptyMap /\ result' = "none")
       /\ (pc = "load" /\ Undecodable)
            => /\ pc' = "done" /\ result' = "err"
               /\ files' = <<>> /\ stats'.files_scanned = 0
               /\ dest' = dest /\ dest' = h.dest0
               /\ index_file' = index_file /\ index_file' = h.file0]_vars

\* A run has failed on an index file that an interrupted save left behind,
\* after an earlier run had copied a file.
C12_Witness ==
    /\ pc = "done" /\ result = "err"
    /\ h.file0.exists /\ ~CanDeserialize(h.file0.bytes)
    /\ index_file = h.file0
    /\ DOMAIN dest # {}

\* C13 as stated: a run that returns Ok has counted every per-file failure,
\* of hashing as of placing, in files_failed.
C13_AsStated ==
    RunOk => stats.files_failed = Cardinality(h.failed) + Cardinality(h.hash_failed)

AfterAnalysis == pc \in {"dedup", "place", "write"} \/ (RunOk /\ files # <<>>)

AfterPlace == pc = "write" \/ (RunOk /\ files # <<>>)

\* C13 amended: no step of Analyze, Dedup or Place ends the run.  Every
\* scanned file but those whose hashing failed is analyzed, and these show
\* only as the difference of files_scanned and files_analyzed; every
\* non-duplicate record is attempted in Place, the failed ones are counted in
\* files_failed and listed in errors; the save of the index is then
\* attempted, and a run that returns Ok has written the whole index.
C13_FileFailures ==
    /\ [][(pc \in {"analyze", "dedup"} \/ (pc = "place" /\ unique_records # <<>>))
            => (result' = "none" /\ pc' \in {"dedup", "place"})]_vars
    /\ [](AfterAnalysis =>
            /\ {r.path : r \in Range(records)} = Range(files) \ h.hash_failed
            /\ stats.files_analyzed = stats.files_scanned - Cardinality(h.hash_failed))
    /\ [](AfterPlace =>
            /\ h.copied \cup h.failed
                 = {r \in Range(records) : ~contains_hash(h.index0, r.hash)}
            /\ h.copied \cap h.failed = {}
            /\ stats.files_failed = Cardinality(h.failed)
            /\ Range(errors) = {r.path : r \in h.failed}
            /\ stats.files_organized = Cardinality(h.copied)
            /\ h.committed)
    /\ []((RunOk /\ files # <<>>) =>
            /\ index_file = [exists |-> TRUE, bytes |-> Serialize(index)]
            /\ DOMAIN index = DOMAIN h.index0 \cup CopiedDigests)

\* A run returned Ok after one file failed hashing and one record failed in
\* Place, or after one record failed in Place and another was copied.
C13_Witness ==
    /\ RunOk
    /\ h.failed # {}
    /\ h.copied # {} \/ h.hash_failed # {}
    /\ stats.files_scanned = 2
    /\ index_file.exists

\* C14 as stated: after a run that returned Ok a loadable index file exists.
C14_IndexWritten ==
    RunOk => (index_file.exists /\ CanDeserialize(index_file.bytes))

(***************************************************************************)
(* The scan command: sift onedrive scan [--full].                          *)
(***************************************************************************)
\* DeltaState::reset.
reset(state) == [state EXCEPT !.delta_link = None, !.seen_hashes = EmptyMap]

\* The delta state files an earlier organize run may have left.
DeltaFiles ==
    {[exists |-> FALSE, state |-> DefaultDeltaState]}
    \cup {[exists |-> TRUE, state |-> [delta_link |-> Some(link), seen_hashes |-> seen]] :
            link \in {"deltaLink-1", ""},
            seen \in {EmptyMap, Put(EmptyMap, "qx-1", "item-1")}}

InitScan ==
    /\ delta_file \in DeltaFiles
    /\ folders = {}
    /\ cpc = "idle"
    /\ cresult = "none"
    /\ config = [dry_run |-> FALSE, dest_folder |-> DestFolder]
    /\ delta_state = DefaultDeltaState
    /\ url = ""
    /\ items = <<>>
    /\ pages = 0
    /\ new_delta_link = ""
    /\ unique = <<>>
    /\ cstats = DefaultPipelineStats
    /\ folder_cache = EmptyMap
    /\ posts = {}
    /\ moves = {}
    /\ cruns = 0
    /\ ch = NoCloudHistory
    /\ full = FALSE

\* main, OneDriveAction::Scan: load the state, reset it under --full, and
\* enter scan_photos.
ScanStart ==
    /\ cpc = "idle"
    /\ cruns < MaxRuns
    /\ cruns' = cruns + 1
    /\ \E flag \in BOOLEAN :
         LET loaded == IF delta_file.exists THEN delta_file.state
                       ELSE DefaultDeltaState
             state == IF flag THEN reset(loaded) ELSE loaded
         IN  /\ full' = flag
             /\ delta_state' = state
             /\ url' = StartUrl(state)
             /\ ch' = [NoCloudHistory EXCEPT !.file0 = delta_file,
                                             !.seen0 = state.seen_hashes]
    /\ cpc' = "scan"
    /\ UNCHANGED <<delta_file, folders, cresult, config, items, pages,
                   new_delta_link, unique, cstats, folder_cache, posts, moves>>

\* main, OneDriveAction::Scan: the summary is printed, the cursor is stored
\* and the state is saved.
ScanSave ==
    /\ cpc = "dedup"
    /\ \/ /\ CloudAbort                   \* DeltaState::save fails
          /\ UNCHANGED delta_file
       \/ /\ delta_state' = [delta_state EXCEPT !.delta_link = Some(new_delta_link)]
          /\ delta_file' = [exists |-> TRUE, state |-> delta_state']
          /\ cpc' = "done"
          /\ cresult' = "ok"
          /\ UNCHANGED <<url, items, pages, new_delta_link, unique, cstats,
                         folder_cache, ch>>
    /\ UNCHANGED <<folders, config, posts, moves, cruns, full>>

ScanUnused == full = FALSE

\* scan_photos is about to send its first request.
FirstRequest == cpc = "scan" /\ pages = 0

\* C11: the scan starts at the root delta endpoint when the delta state has
\* no cursor and at the cursor when it has one; under --full the state the
\* scan runs with has neither cursor nor digests, the scan starts at the
\* root delta endpoint, and the state saved afterwards holds no digest.
C11_StartUrl ==
    /\ FirstRequest =>
         /\ full =>
              /\ url = RootDelta
              /\ delta_state.delta_link = None
              /\ delta_state.seen_hashes = EmptyMap
         /\ (~full /\ (~ch.file0.exists \/ ch.file0.state.delta_link = None))
              => url = RootDelta
         /\ (~full /\ ch.file0.exists /\ IsSome(ch.file0.state.delta_link))
              => url = Unwrap(ch.file0.state.delta_link)
    /\ (CloudRunOk /\ full) => delta_file.state.seen_hashes = EmptyMap

\* A scan under --full over a saved state with a cursor and a digest, and a
\* scan without --full over the same state.
C11_Witness ==
    /\ FirstRequest
    /\ ch.file0.exists
    /\ ch.file0.state.seen_hashes # EmptyMap
    /\ \/ full /\ url = RootDelta
       \/ ~full /\ url = "deltaLink-1"
    /\ cruns = 2

\* The (digest, original path) pairs of an index.
PairsOf(i) == {<<i[k].hash, i[k].file_path>> : k \in DOMAIN i}

\* What a sequence of inserts leaves: for every digest the path of its last
\* insert.
LastInserts(hist) ==
    {hist[j] : j \in {j \in 1..Len(hist) :
                        \A k \in (j + 1)..Len(hist) : hist[k][1] # hist[j][1]}}

\* C15: the file save wrote can be loaded, and the loaded index has the
\* (digest, path) pairs of the saved one, one entry per digest, which are
\* the last inserts of every digest.
C15_RoundTrip ==
    /\ ipc = "saved" => CanDeserialize(entries_file)
    /\ ipc = "loaded" =>
         /\ PairsOf(entries_loaded) = PairsOf(entries)
         /\ DOMAIN entries_loaded = DOMAIN entries
         /\ \A k \in DOMAIN entries_loaded : entries_loaded[k].hash = k
         /\ PairsOf(entries_loaded) = LastInserts(inserts)
         /\ Cardinality(DOMAIN entries_loaded)
              = Cardinality({e[1] : e \in Range(inserts)})

\* An index of two digests, one of them inserted twice with different paths,
\* has been saved and loaded.
C15_Witness ==
    /\ ipc = "loaded"
    /\ Cardinality(DOMAIN entries_loaded) = 2
    /\ Len(inserts) = 3
    /\ \E j \in 1..2 : inserts[j][1] = inserts[3][1] /\ inserts[j][2] # inserts[3][2]

(***************************************************************************)
(* network_io.rs: read_file_with_retries.                                  *)
(***************************************************************************)
MAX_RETRIES == 3
INITIAL_RETRY_DELAY_MS == 100

\* The errors a read may fail with.
IoErrors == {"NotFound", "TimedOut", "ConnectionReset"}

\* A variant of the backoff that keeps the delay.
next_delay_Same(d) == d

\* delay_ms *= 2
next_delay(d) == d * 2

InitRetry ==
    /\ attempt = 0
    /\ delay_ms = INITIAL_RETRY_DELAY_MS
    /\ last_error = None
    /\ rpc = "attempt"
    /\ read_result = None
    /\ outcomes = <<>>
    /\ sleeps = <<>>

\* match operation(): the read returns the data or fails.
ReadAttempt ==
    /\ rpc = "attempt"
    /\ attempt <= MAX_RETRIES
    /\ \/ \E data \in Contents :
            /\ outcomes' = Append(outcomes, <<"Ok", data>>)
            /\ read_result' = Some(<<"Ok", data>>)
            /\ rpc' = "done"
            /\ UNCHANGED <<attempt, delay_ms, last_error, sleeps>>
       \/ \E e \in IoErrors :
            /\ outcomes' = Append(outcomes, <<"Err", e>>)
            /\ last_error' = Some(e)
            /\ rpc' = IF attempt < MAX_RETRIES THEN "sleep" ELSE "exhausted"
            /\ UNCHANGED <<attempt, delay_ms, read_result, sleeps>>

\* thread::sleep, the delay is doubled and the loop goes round.
ReadSleep ==
    /\ rpc = "sleep"
    /\ sleeps' = Append(sleeps, delay_ms)
    /\ delay_ms' = next_delay(delay_ms)
    /\ attempt' = attempt + 1
    /\ rpc' = "attempt"
    /\ UNCHANGED <<last_error, read_result, outcomes>>

\* The loop is over: the last error is returned.
ReadExhausted ==
    /\ rpc = "exhausted"
    /\ read_result' = Some(<<"Err", IF IsSome(last_error) THEN Unwrap(last_error)
                                     ELSE "Unknown error after retries">>)
    /\ rpc' = "done"
    /\ UNCHANGED <<attempt, delay_ms, last_error, outcomes, sleeps>>

RetryUnused == InitRetry

IsErr(o) == o[1] = "Err"

\* C16: at most 4 reads are made; the sleeps made are 100, 200 and 400 ms,
\* one after every failed read but the 4th; the call returns the data of the
\* first read that succeeds, with no read after it, or, after 4 failed
\* reads and 700 ms of sleep, the error of the 4th.
C16_Backoff ==
    /\ Len(outcomes) <= 4
    /\ \A i \in 1..(Len(outcomes) - 1) : IsErr(outcomes[i])
    /\ \E k \in 0..3 : sleeps = SubSeq(<<100, 200, 400>>, 1, k)
    /\ rpc = "attempt" => Len(sleeps) = Len(outcomes)
    /\ rpc \in {"sleep", "exhausted", "done"} => Len(sleeps) = Len(outcomes) - 1
    /\ rpc = "done" =>
         /\ read_result = Some(outcomes[Len(outcomes)])
         /\ IsErr(outcomes[Len(outcomes)]) =>
              /\ Len(outcomes) = 4
              /\ sleeps = <<100, 200, 400>>
              /\ sleeps[1] + sleeps[2] + sleeps[3] = 700

\* The call has returned the error of the 4th read, which is not the error
\* of the reads before it.
C16_Witness ==
    /\ rpc = "done"
    /\ Len(outcomes) = 4
    /\ read_result = Some(<<"Err", "TimedOut">>)
    /\ outcomes[3] = <<"Err", "NotFound">>
    /\ Len(sleeps) = 3

(***************************************************************************)
(* onedrive.rs: tokens, authenticate and the Graph API calls.              *)
(***************************************************************************)
EXPIRY_MARGIN == 300          \* is_valid: expires_at_unix - 300
DEFAULT_EXPIRES_IN == 3600    \* build_token: unwrap_or(3600)
MIN_POLL_INTERVAL == 5        \* device_code_flow: dc.interval.max(5)
SLOW_DOWN_SLEEP == 5          \* device_code_flow: slow_down
TICK == EXPIRY_MARGIN

\* A variant of is_valid without the five-minute margin.
is_valid_NoMargin(token, t) == t < token.expires_at_unix

\* StoredToken::is_valid at time t.
is_valid(token, t) == t < token.expires_at_unix - EXPIRY_MARGIN

\* The successful answers of the token endpoint for the n-th token.
TokenResponses(n) ==
    [access_token : {None, Some(<<"at", n>>)},
     refresh_token : {None, Some(<<"rt", n>>)},
     expires_in : {None, Some(900)},
     error : {None}]

Failure == <<"Err">>
Success(x) == <<"Ok", x>>
IsSuccess(r) == r[1] = "Ok"

\* build_token at time t.
build_token(resp, t) ==
    IF ~IsSome(resp.access_token) THEN Failure
    ELSE Success([access_token |-> Unwrap(resp.access_token),
             refresh_token |-> resp.refresh_token,
             expires_at_unix |->
                 t + (IF IsSome(resp.expires_in) THEN Unwrap(resp.expires_in)
                      ELSE DEFAULT_EXPIRES_IN)])

\* do_refresh at time t: the request fails, the answer carries an error, or
\* the answer is built into a token.
do_refresh(t, n) == {Failure} \cup {build_token(resp, t) : resp \in TokenResponses(n)}

\* A variant that never finds a refresh token.
refresh_token_of_None(token) == None

\* token.refresh_token.clone()
refresh_token_of(token) == token.refresh_token

\* The answers of the device-code endpoint.
DeviceCodeResponses == [interval : {1, 10}, expires_in : {0, 15}]

\* A variant that always takes the floor.
Max_Floor(a, b) == b

Max(a, b) == IF a >= b THEN a ELSE b

\* A variant of the sleep that takes no time.
after_sleep_Instant(t, seconds) == t

\* The clock after thread::sleep.
after_sleep(t, seconds) == t + seconds

\* No device-code flow has been entered.
NoTokenHistory ==
    [interval |-> 0,          \* dc.interval
     last_poll |-> None,      \* the time of the last poll
     last_resp |-> "none",    \* resp.error of the last poll
     prev_resp |-> "none",    \* resp.error of the poll before it
     access_token |-> None]   \* resp.access_token of the last poll

InitToken ==
    /\ th = NoTokenHistory
    /\ now = 0
    /\ config_dir \in BOOLEAN
    /\ token_file = None
    /\ client_token = None
    /\ tpc = "idle"
    /\ auth_error = ""
    /\ server_mode \in {"any", "stalling"}
    /\ deadline = 0
    /\ poll_interval = 0
    /\ polls = 0
    /\ token_requests = {}
    /\ sent = None
    /\ call_result = "none"
    /\ issued = 0
    /\ auths = 0
    /\ calls = 0
    /\ ticks = 0

TokenUnused ==
    /\ th = NoTokenHistory
    /\ now = 0
    /\ config_dir = TRUE
    /\ token_file = None
    /\ client_token = None
    /\ tpc = "idle"
    /\ auth_error = ""
    /\ server_mode = "any"
    /\ deadline = 0
    /\ poll_interval = 0
    /\ polls = 0
    /\ token_requests = {}
    /\ sent = None
    /\ call_result = "none"
    /\ issued = 0
    /\ auths = 0
    /\ calls = 0
    /\ ticks = 0

\* What the token endpoint may answer to a refresh at time t.
Refreshed(t) == IF issued < MaxIssued THEN do_refresh(t, issued + 1) ELSE {Failure}

\* authenticate, step 3: the device code is requested and the polling loop
\* is set up.
EnterDeviceFlow(requests) ==
    /\ token_requests' = requests \cup {"devicecode"}
    /\ client_token' = None
    /\ polls' = 0
    /\ \/ /\ tpc' = "failed"
          /\ auth_error' = "device code request"
          /\ UNCHANGED <<deadline, poll_interval, th>>
       \/ \E dc \in DeviceCodeResponses :
            /\ th' = [NoTokenHistory EXCEPT !.interval = dc.interval]
            /\ poll_interval' = Max(dc.interval, MIN_POLL_INTERVAL)
            /\ deadline' = now + dc.expires_in
            /\ tpc' = "device"
            /\ auth_error' = ""

\* load_cached_token: the results it may return.
load_cached_token ==
    IF ~config_dir \/ ~IsSome(token_file) THEN {Success(None)}
    ELSE {Success(token_file), Failure}

\* save_token: the results it may return, each with the token file it leaves.
save_token(token) ==
    IF ~config_dir THEN {<<"Ok", token_file>>}
    ELSE {<<"Ok", Some(token)>>, <<"Err", token_file>>}

\* authenticate, up to its return or to the polling loop.
AuthStart ==
    /\ tpc = "idle"
    /\ auths < MaxAuths
    /\ auths' = auths + 1
    /\ \E loaded_token \in load_cached_token :
        IF ~IsSuccess(loaded_token)
        THEN /\ tpc' = "failed"
             /\ auth_error' = "load"
             /\ UNCHANGED <<token_file, client_token, deadline, poll_interval,
                            polls, token_requests, issued, th>>
        ELSE LET cached == loaded_token[2]
             IN  \/ /\ IsSome(cached)
                    /\ is_valid(Unwrap(cached), now)
                    /\ client_token' = cached
                    /\ tpc' = "ready"
                    /\ UNCHANGED <<token_file, auth_error, deadline,
                                   poll_interval, polls, token_requests, issued, th>>
                 \/ /\ IsSome(cached)
                    /\ ~is_valid(Unwrap(cached), now)
                    /\ IsSome(refresh_token_of(Unwrap(cached)))
                    /\ \E r \in Refreshed(now) :
                         IF IsSuccess(r)
                         THEN /\ issued' = issued + 1
                              /\ token_requests' = {"refresh"}
                              /\ \E saved \in save_token(r[2]) :
                                   /\ token_file' = saved[2]
                                   /\ IF saved[1] = "Ok"
                                      THEN /\ client_token' = Some(r[2])
                                           /\ tpc' = "ready"
                                           /\ UNCHANGED auth_error
                                      ELSE /\ tpc' = "failed"
                                           /\ auth_error' = "save"
                                           /\ UNCHANGED client_token
                              /\ UNCHANGED <<deadline, poll_interval, polls, th>>
                         ELSE /\ EnterDeviceFlow({"refresh"})
                              /\ UNCHANGED <<token_file, issued>>
                 \/ /\ \/ ~IsSome(cached)
                       \/ /\ IsSome(cached)
                          /\ ~is_valid(Unwrap(cached), now)
                          /\ ~IsSome(refresh_token_of(Unwrap(cached)))
                    /\ EnterDeviceFlow({})
                    /\ UNCHANGED <<token_file, issued>>
    /\ UNCHANGED <<now, config_dir, server_mode, sent, call_result, calls, ticks>>

\* device_code_flow: the condition of the polling loop.
before_deadline(t, limit) == t < limit

\* device_code_flow, one iteration of the polling loop; when the token
\* arrives authenticate saves it and returns the client.
DevicePoll ==
    /\ tpc = "device"
    /\ before_deadline(now, deadline)
    /\ polls < MaxPolls
    /\ polls' = polls + 1
    /\ token_requests' = token_requests \cup {"poll"}
    /\ LET t == after_sleep(now, poll_interval)
       IN  \/ /\ now' = t                    \* authorization_pending
              /\ th' = [th EXCEPT !.last_poll = Some(t), !.prev_resp = th.last_resp,
                                  !.last_resp = "authorization_pending"]
              /\ UNCHANGED <<token_file, client_token, tpc, auth_error, issued>>
           \/ /\ now' = after_sleep(t, SLOW_DOWN_SLEEP)    \* slow_down
              /\ th' = [th EXCEPT !.last_poll = Some(t), !.prev_resp = th.last_resp, !.last_resp = "slow_down"]
              /\ UNCHANGED <<token_file, client_token, tpc, auth_error, issued>>
           \/ /\ server_mode = "any"         \* the request fails, or another error
              /\ now' = t
              /\ tpc' = "failed"
              /\ auth_error' = "auth error"
              /\ \E answer \in {"no_response", "other_error"} :
                   th' = [th EXCEPT !.last_poll = Some(t), !.prev_resp = th.last_resp, !.last_resp = answer]
              /\ UNCHANGED <<token_file, client_token, issued>>
           \/ /\ server_mode = "any"
              /\ issued < MaxIssued
              /\ now' = t
              /\ \E resp \in TokenResponses(issued + 1) :
                   LET r == build_token(resp, t)
                   IN  /\ th' = [th EXCEPT !.last_poll = Some(t), !.prev_resp = th.last_resp,
                                           !.last_resp = "no_error",
                                           !.access_token = resp.access_token]
                       /\ IF IsSuccess(r)
                             THEN /\ issued' = issued + 1
                                  /\ \E saved \in save_token(r[2]) :
                                       /\ token_file' = saved[2]
                                       /\ IF saved[1] = "Ok"
                                          THEN /\ client_token' = Some(r[2])
                                               /\ tpc' = "ready"
                                               /\ UNCHANGED auth_error
                                          ELSE /\ tpc' = "failed"
                                               /\ auth_error' = "save"
                                               /\ UNCHANGED client_token
                             ELSE /\ tpc' = "failed"
                                  /\ auth_error' = "missing access_token"
                                  /\ UNCHANGED <<token_file, client_token, issued>>
    /\ UNCHANGED <<config_dir, server_mode, deadline, poll_interval, sent, call_result,
                   auths, calls, ticks>>

\* device_code_flow: the loop is left at the deadline.
DeviceTimeout ==
    /\ tpc = "device"
    /\ ~before_deadline(now, deadline)
    /\ tpc' = "failed"
    /\ auth_error' = "timed out"
    /\ UNCHANGED <<config_dir, now, token_file, client_token, server_mode, deadline,
                   poll_interval, polls, token_requests, sent, call_result,
                   issued, auths, calls, ticks, th>>

\* get_json, patch_json, post_json: ensure_token_valid, then the request.
ApiCall ==
    /\ tpc = "ready"
    /\ calls < MaxCalls
    /\ calls' = calls + 1
    /\ \E method \in {"GET", "PATCH", "POST"} :
       LET token == Unwrap(client_token)
           NotSent == /\ sent' = None
                      /\ call_result' = "err"
                      /\ UNCHANGED client_token
       IN  \/ /\ is_valid(token, now)
              /\ sent' = Some(<<method, token.access_token>>)
              /\ call_result' \in {"ok", "err"}
              /\ token_requests' = {}
              /\ UNCHANGED <<token_file, client_token, issued>>
           \/ /\ ~is_valid(token, now)
              /\ ~IsSome(refresh_token_of(token))
              /\ token_requests' = {}
              /\ NotSent
              /\ UNCHANGED <<token_file, issued>>
           \/ /\ ~is_valid(token, now)
              /\ IsSome(refresh_token_of(token))
              /\ token_requests' = {"refresh"}
              /\ \E r \in Refreshed(now) :
                   IF IsSuccess(r)
                   THEN /\ issued' = issued + 1
                        /\ \E saved \in save_token(r[2]) :
                             /\ token_file' = saved[2]
                             /\ IF saved[1] = "Ok"
                                THEN /\ client_token' = Some(r[2])
                                     /\ sent' = Some(<<method, r[2].access_token>>)
                                     /\ call_result' \in {"ok", "err"}
                                ELSE NotSent
                   ELSE NotSent /\ UNCHANGED <<token_file, issued>>
    /\ UNCHANGED <<config_dir, now, tpc, auth_error, server_mode, deadline, poll_interval,
                   polls, auths, ticks, th>>

\* Five minutes pass between two operations.
Tick ==
    /\ tpc \in {"idle", "ready"}
    /\ ticks < MaxTicks
    /\ ticks' = ticks + 1
    /\ now' = now + TICK
    /\ UNCHANGED <<config_dir, token_file, client_token, tpc, auth_error, server_mode,
                   deadline, poll_interval, polls, token_requests, sent,
                   call_result, issued, auths, calls, th>>

\* The process ends; the token file stays.
TokenExit ==
    /\ tpc \in {"ready", "failed"}
    /\ tpc' = "idle"
    /\ client_token' = None
    /\ auth_error' = ""
    /\ deadline' = 0
    /\ poll_interval' = 0
    /\ polls' = 0
    /\ token_requests' = {}
    /\ sent' = None
    /\ call_result' = "none"
    /\ calls' = 0
    /\ th' = NoTokenHistory
    /\ UNCHANGED <<config_dir, now, token_file, server_mode, issued, auths, ticks>>

\* One Graph API call has been made by this step.
CallMade == calls' = calls + 1

\* The client's token is within five minutes of its expiry.
NearExpiry(token) == now >= token.expires_at_unix - 300

\* The call of this step sent its request with a token refreshed by it.
SentRefreshed ==
    /\ IsSome(sent')
    /\ IsSome(client_token')
    /\ client_token' # client_token
    /\ sent'[1][2] = Unwrap(client_token').access_token

\* What the claim says of a call, but for where the refreshed token is kept.
CallChecksToken ==
    LET token == Unwrap(client_token)
    IN  /\ ~NearExpiry(token) =>
            /\ token_requests' = {}
            /\ IsSome(sent')
            /\ sent'[1][2] = token.access_token
            /\ UNCHANGED <<client_token, token_file>>
        /\ NearExpiry(token) /\ IsSome(token.refresh_token) =>
            /\ token_requests' = {"refresh"}
            /\ IsSome(sent') => SentRefreshed
        /\ NearExpiry(token) /\ ~IsSome(token.refresh_token) =>
            /\ ~IsSome(sent')
            /\ call_result' = "err"

\* C17 as stated: before every Graph API request the client checks its token;
\* a token within 5 minutes of expiry is refreshed and the refreshed token is
\* persisted and used for the request; with no refresh token the request is
\* not sent and the call fails.
C17_AsStated ==
    [][CallMade =>
        /\ CallChecksToken
        /\ IsSome(sent') /\ client_token' # client_token =>
               token_file' = client_token']_vars

\* C17: before every Graph API request the client checks its token; a token
\* within 5 minutes of expiry is refreshed, the refreshed token is written to
\* the token file when there is a user config directory (without one it is
\* kept in memory only) and used for the request; when the refresh or the
\* write fails, or the token carries no refresh token, the request is not
\* sent and the call fails.
C17_EnsureTokenValid ==
    [][CallMade =>
        /\ CallChecksToken
        /\ IsSome(sent') /\ client_token' # client_token =>
               token_file' = IF config_dir THEN client_token' ELSE token_file
        /\ ~IsSome(sent') => call_result' = "err" /\ UNCHANGED client_token]_vars

\* A call has refreshed its token, saved it and sent its request with it.
C17_Witness ==
    /\ tpc = "ready"
    /\ calls > 0
    /\ token_requests = {"refresh"}
    /\ IsSome(sent)
    /\ sent[1][2] = Unwrap(client_token).access_token
    /\ token_file = client_token

\* authenticate has been entered by this step, and the token file was read.
AuthMade == auths' = auths + 1 /\ auth_error' # "load"

\* The cached token is more than five minutes from its expiry.
CachedUsable == IsSome(token_file) /\ ~NearExpiry(Unwrap(token_file))

\* The cached token is stale and carries a refresh token.
CachedRefreshable ==
    /\ IsSome(token_file)
    /\ NearExpiry(Unwrap(token_file))
    /\ IsSome(Unwrap(token_file).refresh_token)

\* What the claim says of authenticate, but for where the new token is kept.
AuthOrder ==
    /\ AuthMade /\ CachedUsable =>
        /\ tpc' = "ready"
        /\ client_token' = token_file
        /\ UNCHANGED <<token_file, token_requests>>
    /\ AuthMade /\ CachedRefreshable =>
        /\ "refresh" \in token_requests'
        /\ "devicecode" \notin token_requests' /\ tpc' = "ready" =>
              /\ IsSome(client_token')
              /\ client_token' # token_file
    /\ AuthMade /\ "devicecode" \in token_requests' =>
        /\ ~CachedUsable
        /\ CachedRefreshable => "refresh" \in token_requests'
        /\ ~IsSome(client_token')
        /\ UNCHANGED token_file
    /\ tpc = "device" /\ tpc' = "ready" => IsSome(client_token')

\* The step returns a client with a token obtained by it.
NewTokenReturned ==
    /\ tpc \in {"idle", "device"}
    /\ tpc' = "ready"
    /\ \/ tpc = "device"
       \/ client_token' # token_file

\* C18 as stated: authenticate uses a cached token more than 5 minutes from
\* expiry without any token request; otherwise it refreshes a cached token
\* that carries a refresh token and on success persists and uses the result;
\* the device-code flow starts only when neither step gave a usable token, and
\* its token is persisted before the client is returned.
C18_AsStated ==
    [][/\ AuthOrder
       /\ NewTokenReturned => token_file' = client_token']_vars

\* C18: authenticate uses a cached token more than 5 minutes from expiry
\* without any token request; otherwise it refreshes a cached token that
\* carries a refresh token and on success uses the result; the device-code
\* flow starts only when neither step gave a usable token; a token obtained
\* by refresh or by the device-code flow is written to the token file before
\* the client is returned when there is a user config directory, and is kept
\* in memory only when there is none.
C18_Authenticate ==
    [][/\ AuthOrder
       /\ NewTokenReturned =>
            token_file' = IF config_dir THEN client_token' ELSE token_file]_vars

\* authenticate has refreshed a stale cached token, saved and returned it.
C18_Witness ==
    /\ tpc = "ready"
    /\ calls = 0
    /\ token_requests = {"refresh"}
    /\ token_file = client_token

\* The token endpoint never lets the sign-in complete.
Stalling == server_mode = "stalling"

\* device_code_flow has returned its timeout error.
TimedOut == tpc = "failed" /\ auth_error = "timed out"

\* C19: device-code polling terminates: while the token endpoint keeps
\* answering authorization_pending or slow_down, each request returning, no
\* token request is sent once the server's expiry has passed, and the flow
\* then fails with the 'timed out' error.
C19_PollingTerminates ==
    /\ [][polls' = polls + 1 => now < deadline]_vars
    /\ [][tpc = "device" /\ Stalling /\ tpc' # "device" => TimedOut' /\ now >= deadline]_vars
    /\ (tpc = "device" /\ Stalling) ~> TimedOut

\* The loop has polled up to the server's expiry and timed out.
C19_Witness ==
    /\ Stalling
    /\ TimedOut
    /\ polls > 1
    /\ now >= deadline

(***************************************************************************)
(* clustering.rs: dbscan.  The points lie on the equator, km apart as their *)
(* field km says, so that haversine_distance is the difference of the km.   *)
(***************************************************************************)
Abs(x) == IF x >= 0 THEN x ELSE -x

haversine_distance(point1, point2) == Abs(point2.km - point1.km)

\* The ids of the points of pts within eps of point, in the order of pts.
find_neighbors(point, pts, eps) ==
    LET ids[k \in 0..Len(pts)] ==
            IF k = 0 THEN <<>>
            ELSE IF /\ pts[k].id # point.id
                    /\ haversine_distance(point, pts[k]) <= eps
                 THEN Append(ids[k - 1], pts[k].id)
                 ELSE ids[k - 1]
    IN  ids[Len(pts)]

\* The test at the head of the outer loop.
already_visited_Never(seen, id) == FALSE
already_visited(seen, id) == id \in seen

\* The ids of n points: their positions in the slice, the positions in
\* reverse, or the positions plus one.  All are distinct.
IdSchemes(n) ==
    {[k \in 1..n |-> k - 1], [k \in 1..n |-> n - k], [k \in 1..n |-> k]}

\* The inputs: n points with distinct ids, which need not be their positions
\* in the slice.
PointSeqs(n) ==
    {[k \in 1..n |-> [id |-> ids[k], km |-> kms[k]]] :
        ids \in IdSchemes(n), kms \in [1..n -> 0..MaxCoord]}

\* The input of test_dbscan_clustering_basic: ids 0..4 at (0,0), (0.01,0.01),
\* (0.02,0.02), (10,10), (10.01,10.01), by their distance from the first in
\* whole km (1.57, 3.14, 1568.5 and 1570.1 km).  The pairs within 2 km are
\* 0-1, 1-2 and 3-4.
ExamplePoints ==
    <<[id |-> 0, km |-> 0], [id |-> 1, km |-> 2], [id |-> 2, km |-> 3],
      [id |-> 3, km |-> 1569], [id |-> 4, km |-> 1570]>>

InitDb ==
    /\ \/ \E n \in 0..MaxPoints : points \in PointSeqs(n)
       \/ points = ExamplePoints
    /\ eps_km \in {1, 2}
    /\ min_points \in {1, 2}
    /\ clusters = EmptyMap
    /\ visited = {}
    /\ cluster_id = 0
    /\ next_point = 1
    /\ current_cluster = <<>>
    /\ seed_set = <<>>
    /\ dpc = "loop"

DbUnused ==
    /\ points = <<>>
    /\ eps_km = 1
    /\ min_points = 1
    /\ clusters = EmptyMap
    /\ visited = {}
    /\ cluster_id = 0
    /\ next_point = 1
    /\ current_cluster = <<>>
    /\ seed_set = <<>>
    /\ dpc = "loop"

\* The outer loop takes the next point: it skips it, marks it as noise, or
\* starts a cluster with it.
DbVisit ==
    /\ dpc = "loop"
    /\ next_point <= Len(points)
    /\ LET point == points[next_point]
           neighbors == find_neighbors(point, points, eps_km)
       IN  IF already_visited(visited, point.id)
           THEN /\ next_point' = next_point + 1
                /\ UNCHANGED <<visited, current_cluster, seed_set, dpc>>
           ELSE IF Len(neighbors) < min_points
           THEN /\ visited' = visited \cup {point.id}
                /\ next_point' = next_point + 1
                /\ UNCHANGED <<current_cluster, seed_set, dpc>>
           ELSE /\ current_cluster' = <<point.id>>
                /\ visited' = visited \cup {point.id}
                /\ seed_set' = neighbors
                /\ dpc' = "expand"
                /\ UNCHANGED next_point
    /\ UNCHANGED <<points, eps_km, min_points, clusters, cluster_id>>

\* One iteration of the inner loop: seed_set.pop() and what follows.  The
\* point is looked up as points[current_point_id].
DbExpand ==
    /\ dpc = "expand"
    /\ seed_set # <<>>
    /\ LET current_point_id == seed_set[Len(seed_set)]
           rest == SubSeq(seed_set, 1, Len(seed_set) - 1)
       IN  IF current_point_id \in visited
           THEN /\ seed_set' = rest
                /\ UNCHANGED <<visited, current_cluster, dpc>>
           ELSE IF current_point_id >= Len(points)
           THEN /\ dpc' = "panic"
                /\ visited' = visited \cup {current_point_id}
                /\ seed_set' = rest
                /\ UNCHANGED current_cluster
           ELSE LET current_point == points[current_point_id + 1]
                    neighbors_of_current ==
                        find_neighbors(current_point, points, eps_km)
                IN  /\ visited' = visited \cup {current_point_id}
                    /\ seed_set' =
                         IF Len(neighbors_of_current) >= min_points
                         THEN rest \o SelectSeq(neighbors_of_current,
                                                LAMBDA n : n \notin visited')
                         ELSE rest
                    /\ current_cluster' = Append(current_cluster, current_point_id)
                    /\ UNCHANGED dpc
    /\ UNCHANGED <<points, eps_km, min_points, clusters, cluster_id, next_point>>

\* The inner loop is over: the cluster is inserted.
DbInsert ==
    /\ dpc = "expand"
    /\ seed_set = <<>>
    /\ IF current_cluster # <<>>
       THEN /\ clusters' = Put(clusters, cluster_id, current_cluster)
            /\ cluster_id' = cluster_id + 1
       ELSE UNCHANGED <<clusters, cluster_id>>
    /\ current_cluster' = <<>>
    /\ next_point' = next_point + 1
    /\ dpc' = "loop"
    /\ UNCHANGED <<points, eps_km, min_points, visited, seed_set>>

\* The outer loop is over: clusters is returned.
DbReturn ==
    /\ dpc = "loop"
    /\ next_point > Len(points)
    /\ dpc' = "done"
    /\ UNCHANGED <<points, eps_km, min_points, clusters, visited, cluster_id,
                   next_point, current_cluster, seed_set>>

\* The clusters of the result that hold the point id.
ClustersOf(id) == {c \in DOMAIN clusters : id \in Range(clusters[c])}

\* C20: in every dbscan result, for distinct point ids, eps_km > 0 and
\* min_points >= 1, every point of the input is in at most one cluster, every
\* cluster is non-empty, and the cluster ids are exactly 0..k-1 for the k
\* clusters returned.
C20_DbscanResult ==
    dpc = "done" =>
        /\ \A k \in 1..Len(points) : Cardinality(ClustersOf(points[k].id)) <= 1
        /\ \A c \in DOMAIN clusters : clusters[c] # <<>>
        /\ DOMAIN clusters = 0..(Cardinality(DOMAIN clusters) - 1)

\* A result with two clusters, for points whose ids are not their positions.
C20_Witness ==
    /\ dpc = "done"
    /\ Cardinality(DOMAIN clusters) = 2
    /\ \E k \in 1..Len(points) : points[k].id # k - 1

(***************************************************************************)
(* onedrive.rs: DeltaState::save and save_token, which both write their    *)
(* file with create_dir_all and fs::write.                                 *)
(***************************************************************************)
\* serde_json::to_string_pretty: the text, one field a line.
delta_to_string_pretty(state) ==
    <<"{", <<"delta_link", state.delta_link>>,
           <<"seen_hashes", state.seen_hashes>>, "}">>

token_to_string_pretty(token) ==
    <<"{", <<"access_token", token.access_token>>,
           <<"refresh_token", token.refresh_token>>,
           <<"expires_at_unix", token.expires_at_unix>>, "}">>

\* The texts the two files may hold.
ConfigTexts(kind) ==
    IF kind = "delta"
    THEN {delta_to_string_pretty(f.state) : f \in {g \in DeltaFiles : g.exists}}
    ELSE {token_to_string_pretty(r[2]) :
            r \in {build_token(resp, 0) : resp \in TokenResponses(1)} \ {Failure}}

InitSave ==
    /\ cfg_kind \in {"delta", "token"}
    /\ cfg_dir \in BOOLEAN
    /\ cfg_file \in {None} \cup {Some(t) : t \in ConfigTexts(cfg_kind)}
    /\ cfg_dir = FALSE => cfg_file = None
    /\ cfg_old = cfg_file
    /\ cfg_new \in ConfigTexts(cfg_kind)
    /\ wpc = "call"
    /\ wresult = "none"

SaveUnused ==
    /\ cfg_kind = "delta"
    /\ cfg_dir = TRUE
    /\ cfg_file = None
    /\ cfg_old = None
    /\ cfg_new = <<>>
    /\ wpc = "call"
    /\ wresult = "none"

\* state_path() / token_path(), then create_dir_all(parent).
SavePath ==
    /\ wpc = "call"
    /\ \/ /\ ~cfg_dir
          /\ wpc' = "done"
          /\ wresult' = IF cfg_kind = "token" THEN "ok" ELSE "err"
       \/ /\ cfg_dir                      \* create_dir_all fails
          /\ wpc' = "done"
          /\ wresult' = "err"
       \/ /\ cfg_dir
          /\ wpc' = "open"
          /\ UNCHANGED wresult
    /\ UNCHANGED <<cfg_kind, cfg_dir, cfg_file, cfg_old, cfg_new>>

\* fs::write, first half: the file itself is created or truncated.
SaveTruncate ==
    /\ wpc = "open"
    /\ \/ /\ wpc' = "done"               \* the file cannot be opened
          /\ wresult' = "err"
          /\ UNCHANGED cfg_file
       \/ /\ cfg_file' = Some(<<>>)
          /\ wpc' = "write"
          /\ UNCHANGED wresult
    /\ UNCHANGED <<cfg_kind, cfg_dir, cfg_old, cfg_new>>

\* fs::write, second half: the text is written; a write error leaves what
\* was written so far.
SaveData ==
    /\ wpc = "write"
    /\ \/ /\ cfg_file' = Some(cfg_new)
          /\ wresult' = "ok"
       \/ \E part \in Prefixes(cfg_new) :
            /\ cfg_file' = Some(part)
            /\ wresult' = "err"
    /\ wpc' = "done"
    /\ UNCHANGED <<cfg_kind, cfg_dir, cfg_old, cfg_new>>

\* The process is killed during the save: inside fs::write any prefix of the
\* text may have reached the file.
SaveCrash ==
    /\ wpc \in {"open", "write"}
    /\ IF wpc = "open" THEN UNCHANGED cfg_file
       ELSE \E part \in Prefixes(cfg_new) : cfg_file' = Some(part)
    /\ wpc' = "done"
    /\ wresult' = "crashed"
    /\ UNCHANGED <<cfg_kind, cfg_dir, cfg_old, cfg_new>>

\* C22: the token cache file and the delta state file are rewritten
\* atomically: after a crash at any point of the save the file holds the
\* complete previous text or the complete new text.
C22_AtomicRewrite ==
    wresult = "crashed" => cfg_file = cfg_old \/ cfg_file = Some(cfg_new)

(***************************************************************************)
(* organization.rs: organize_by_date_and_location.  A string is a sequence *)
(* of characters; a path is a sequence of components, each a string.       *)
(***************************************************************************)
LocationChars == {"P", "/", " ", ":"}

IllegalChars == {"/", "\\", ":", "*", "?", "\"", "<", ">", "|"}

\* str::trim
RECURSIVE trim_start(_)
trim_start(s) == IF s # <<>> /\ Head(s) = " " THEN trim_start(Tail(s)) ELSE s

RECURSIVE trim_end(_)
trim_end(s) ==
    IF s # <<>> /\ s[Len(s)] = " " THEN trim_end(SubSeq(s, 1, Len(s) - 1)) ELSE s

trim(s) == trim_end(trim_start(s))

\* onedrive.rs, sanitize_folder_name
sanitize_folder_name(name) ==
    trim([k \in 1..Len(name) |-> IF name[k] \in IllegalChars THEN "_" ELSE name[k]])

\* The components of a relative path given as a string: the runs of
\* characters between the separators.
RECURSIVE components(_, _)
components(s, current) ==
    IF s = <<>> THEN (IF current = <<>> THEN <<>> ELSE <<current>>)
    ELSE IF Head(s) = "/"
         THEN (IF current = <<>> THEN <<>> ELSE <<current>>) \o components(Tail(s), <<>>)
         ELSE components(Tail(s), Append(current, Head(s)))

\* The date, the root and the file the function is called with.
PlanDate == [year |-> 2023, month |-> 10, day |-> 15]
PlanRoot == <<"organized_photos">>
PlanFile == <<"photo.jpg">>

\* The characters of format!("{}") and of format!("{:02}") of a number.
DigitChar(d) == <<"0", "1", "2", "3", "4", "5", "6", "7", "8", "9">>[d + 1]
decimal(n) == [k \in 1..Len(Digits(n)) |-> DigitChar(Digits(n)[k])]
decimal02(n) == [k \in 1..Len(Pad2(n)) |-> DigitChar(Pad2(n)[k])]

\* format!("{}/{:02}/{:02}/{}", year, month, day, location)
chrono_path_with_location(date, location) ==
    decimal(date.year) \o <<"/">> \o decimal02(date.month) \o <<"/">>
        \o decimal02(date.day) \o <<"/">> \o location

\* The path the function builds: root.join(chrono_path).join(file_name).
organize_by_date_and_location(root, date, location, file_name) ==
    <<root>> \o components(chrono_path_with_location(date, location), <<>>)
             \o <<file_name>>

InitPlan ==
    /\ plan_location \in SeqsUpTo(LocationChars, MaxLocation)
    /\ plan_dest = None
    /\ plan_pc = "call"

PlanUnused ==
    /\ plan_location = <<>>
    /\ plan_dest = None
    /\ plan_pc = "call"

\* The call: create_dir_all or the copy may fail, else the path is returned.
PlanCall ==
    /\ plan_pc = "call"
    /\ \/ /\ plan_pc' = "failed"
          /\ UNCHANGED plan_dest
       \/ /\ plan_pc' = "done"
          /\ plan_dest' = Some(organize_by_date_and_location(
                                 PlanRoot, PlanDate, plan_location, PlanFile))
    /\ UNCHANGED plan_location

\* C23: the destination planned for a file with a location is
\* root/YYYY/MM/DD/<sanitized-location>/basename, the location with each of
\* / \ : * ? " < > | replaced by _ and trimmed, one level below the day.
C23_PlannedPath ==
    plan_pc = "done" /\ sanitize_folder_name(plan_location) # <<>> =>
        Unwrap(plan_dest) =
            <<PlanRoot, decimal(PlanDate.year), decimal02(PlanDate.month),
              decimal02(PlanDate.day), sanitize_folder_name(plan_location),
              PlanFile>>

\* The run returned Err out of the scan or out of get_root_id.
ScanOrRootFailed ==
    cpc = "done" /\ cresult = "err" /\ ch.aborted \in {"scan", "root"}

\* C24: when the cloud scan fails on a page, or resolving the drive root
\* fails, the organize run returns an error, no move has been issued, and the
\* persisted delta state is what it was before the run.
C24_ScanFailure ==
    /\ [](ScanOrRootFailed => moves = {} /\ delta_file = ch.file0)
    /\ [][(cpc \in {"scan", "root"} /\ cresult' = "err")
            => (cpc' = "done" /\ delta_file' = delta_file /\ moves' = moves)]_vars

\* The second run gave up at get_root_id and left the saved state alone.
C24_Witness ==
    /\ ScanOrRootFailed
    /\ ch.aborted = "root"
    /\ delta_file.exists
    /\ delta_file.state.seen_hashes # EmptyMap

\* Stage 4 of a real run has taken the record at position i.
Placed(i) ==
    /\ ~config.dry_run
    /\ cpc = "organize" \/ CloudRunOk
    /\ ToPlacement(i)
    /\ i \notin Range(unique)

\* The move requests sent for the record at position i.
MovesOf(i) == {m \in moves : m.ref = i}

\* The folder of the record's capture date.
DestOf(i) == DestPath(config.dest_folder, Unwrap(items[i].taken_date))

\* The record has a capture date and is not in the folder of that date.
MoveDue(i) ==
    /\ IsSome(items[i].taken_date)
    /\ ~(IsSome(items[i].parent_id) /\ Unwrap(items[i].parent_id) = DestOf(i))

\* What the claim says of the records without a move and of the counters.
PlaceCounts ==
    ~config.dry_run /\ (cpc = "organize" \/ CloudRunOk) =>
         /\ \A i \in 1..Len(items) :
              Placed(i) /\ ~MoveDue(i) => MovesOf(i) = {}
         /\ \A m \in moves : m.parent = DestOf(m.ref)
         /\ cstats.no_date =
              Cardinality({i \in 1..Len(items) :
                             Placed(i) /\ ~IsSome(items[i].taken_date)})
         /\ cstats.organized = Cardinality({m \in moves : m.ok})

\* C25 as stated: in a real run a unique record with no capture date counts
\* in no_date and is never moved, a record already in its destination folder
\* is not moved and not counted, every other unique record gets exactly one
\* move request to the folder of its capture date, and organized counts the
\* successful moves.
C25_AsStated ==
    /\ PlaceCounts
    /\ \A i \in 1..Len(items) :
         Placed(i) /\ MoveDue(i) => Cardinality(MovesOf(i)) = 1

\* C25: in a real run a unique record with no capture date counts in no_date
\* and is never moved, a record already in its destination folder is not
\* moved and not counted, every other unique record whose destination folder
\* could be resolved gets exactly one move request to the folder of its
\* capture date, a record whose folder could not be resolved or created gets
\* none, and organized counts the successful moves.
C25_Place ==
    /\ PlaceCounts
    /\ \A i \in 1..Len(items) :
         Placed(i) /\ MoveDue(i) =>
            Cardinality(MovesOf(i)) = IF i \in ch.unresolved THEN 0 ELSE 1

\* A real run has moved one record and left alone one that was in place.
C25_Witness ==
    /\ CloudRunOk
    /\ \E i, j \in 1..Len(items) :
         /\ Placed(i) /\ MoveDue(i) /\ \E m \in MovesOf(i) : m.ok
         /\ Placed(j) /\ IsSome(items[j].taken_date) /\ ~MoveDue(j)

\* This step is one poll of the token endpoint.
PollMade == polls' = polls + 1

\* The time of the poll this step makes.
PollTime == Unwrap(th'.last_poll)

\* The shortest time between two polls.
PollGap ==
    IF th.interval > MIN_POLL_INTERVAL THEN th.interval ELSE MIN_POLL_INTERVAL

\* The last poll was answered authorization_pending and the expiry has not
\* passed.
PendingInTime ==
    /\ tpc = "device"
    /\ th.last_resp = "authorization_pending"
    /\ before_deadline(now, deadline)

\* What the claim says of the sleeps and of the error codes.
PollingRules ==
    /\ [][PollMade =>
            /\ PollTime - now >= PollGap
            /\ IsSome(th.last_poll) => PollTime - Unwrap(th.last_poll) >= PollGap
            /\ th.last_resp = "slow_down" =>
                 PollTime - Unwrap(th.last_poll) >= PollGap + SLOW_DOWN_SLEEP
            /\ th'.last_resp \in {"authorization_pending", "slow_down"} =>
                 tpc' = "device"
            /\ th'.last_resp = "other_error" =>
                 tpc' = "failed" /\ auth_error' = "auth error"]_vars
    /\ [][th.last_resp = "other_error" => ~PollMade]_vars
    /\ [](PendingInTime => ENABLED DevicePoll)
    /\ [][PendingInTime => PollMade]_vars

\* The polling loop has been left with a token.
LoopReturnedToken ==
    /\ tpc' # "device"
    /\ auth_error' \in {"", "save"}
    /\ tpc' = "ready" => IsSome(client_token')

\* C26 as stated: polls are at least max(interval, 5) seconds apart,
\* authorization_pending leads to another poll, slow_down adds 5 s of sleep
\* before the next poll, a response with no error code ends the loop with a
\* token, and any other error code ends the flow with an error and no
\* further poll.
C26_AsStated ==
    /\ PollingRules
    /\ [][PollMade /\ th'.last_resp = "no_error" => LoopReturnedToken]_vars

\* C26: polls are at least max(interval, 5) seconds apart,
\* authorization_pending leads to another poll while the expiry has not
\* passed, slow_down adds 5 s of sleep before the next poll, a response with
\* no error code ends the loop, with a token when it carries an access_token
\* and with an error when it carries none, and any other error code ends the
\* flow with an error and no further poll.
C26_DevicePolling ==
    /\ PollingRules
    /\ [][PollMade /\ th'.last_resp = "no_error" =>
            IF IsSome(th'.access_token)
            THEN /\ LoopReturnedToken
                 /\ tpc' = "ready" =>
                      Unwrap(client_token').access_token = Unwrap(th'.access_token)
            ELSE tpc' = "failed" /\ auth_error' = "missing access_token"]_vars

\* A poll answered slow_down has been followed by a poll answered with a
\* token, for a server interval above the floor or below it.
C26_Witness ==
    /\ tpc = "ready"
    /\ polls >= 2
    /\ th.prev_resp = "slow_down"
    /\ th.last_resp = "no_error"
    /\ th.interval < MIN_POLL_INTERVAL

(***************************************************************************)
(* OneDriveClient::get_or_create_folder, request by request.               *)
(***************************************************************************)
FolderParents == {"root", "id-2024"}

\* What get_json may meet: ensure_token_valid fails and nothing is sent, the
\* request gets no response, the status is not a success, the body is not
\* JSON, the JSON has no id, or the drive answers for the folder: its item
\* when it exists, 404 when it does not.
LookupAnswers(exists) ==
    {"no_token", "no_response", "other_status", "bad_body", "no_id"}
        \cup (IF exists THEN {"found"} ELSE {"not_found"})

\* What post_json may meet; the drive creates the folder when there is none
\* and answers 409 when there is one (conflictBehavior fail).
CreateAnswers(exists) ==
    {"no_token", "no_response", "other_status", "bad_body"}
        \cup (IF exists THEN {"conflict"} ELSE {"created", "created_no_id"})

\* The id the drive gives the folder.
FolderId(parent_id, safe_name) == <<parent_id, safe_name>>

\* get_json: Ok with the id field of the JSON, or Err.
get_json(answer, parent_id, safe_name) ==
    CASE answer = "found" -> Success(Some(FolderId(parent_id, safe_name)))
      [] answer = "no_id" -> Success(None)
      [] OTHER -> Failure

\* post_json: Ok with the id field of the JSON, or Err.
post_json(answer, parent_id, safe_name) ==
    CASE answer = "created" -> Success(Some(FolderId(parent_id, safe_name)))
      [] answer = "created_no_id" -> Success(None)
      [] OTHER -> Failure

InitFolder ==
    /\ fparent \in FolderParents
    /\ fname \in SeqsUpTo(LocationChars, MaxName)
    /\ fexists \in BOOLEAN
    /\ flookup = "none"
    /\ frequests = <<>>
    /\ fresult = None
    /\ fpc = "lookup"

FolderUnused ==
    /\ fparent = "root"
    /\ fname = <<>>
    /\ fexists = FALSE
    /\ flookup = "none"
    /\ frequests = <<>>
    /\ fresult = None
    /\ fpc = "lookup"

\* get_or_create_folder up to the end of the lookup.
FolderLookup ==
    /\ fpc = "lookup"
    /\ \E answer \in LookupAnswers(fexists) :
         LET safe_name == sanitize_folder_name(fname)
             resp == get_json(answer, fparent, safe_name)
         IN  /\ flookup' = answer
             /\ frequests' = IF answer = "no_token" THEN frequests
                             ELSE Append(frequests, <<"GET", safe_name>>)
             /\ IF IsSuccess(resp) /\ IsSome(resp[2])
                THEN /\ fresult' = Some(Success(Unwrap(resp[2])))
                     /\ fpc' = "done"
                ELSE /\ fpc' = "create"
                     /\ UNCHANGED fresult
    /\ UNCHANGED <<fparent, fname, fexists>>

\* get_or_create_folder from the create request to the return.
FolderCreate ==
    /\ fpc = "create"
    /\ \E answer \in CreateAnswers(fexists) :
         LET safe_name == sanitize_folder_name(fname)
             resp == post_json(answer, fparent, safe_name)
         IN  /\ frequests' = IF answer = "no_token" THEN frequests
                             ELSE Append(frequests, <<"POST", safe_name>>)
             /\ fexists' = (fexists \/ answer \in {"created", "created_no_id"})
             /\ fresult' = IF IsSuccess(resp) /\ IsSome(resp[2])
                           THEN Some(Success(Unwrap(resp[2])))
                           ELSE Some(Failure)
    /\ fpc' = "done"
    /\ UNCHANGED <<fparent, fname, flookup>>

\* A create request has been sent.
CreateSent == \E k \in 1..Len(frequests) : frequests[k][1] = "POST"

\* C27: get_or_create_folder returns the id of the folder the lookup found,
\* sends a create request only when the lookup answered 404, and returns an
\* error without a create request when the lookup failed in another way
\* (another status, no response, no valid token).
C27_CreateOnlyOn404 ==
    /\ flookup = "found" =>
         /\ fpc = "done" /\ ~CreateSent
         /\ fresult = Some(Success(FolderId(fparent, sanitize_folder_name(fname))))
    /\ CreateSent => flookup = "not_found"
    /\ fpc = "done" /\ flookup \in {"other_status", "no_response", "no_token"} =>
         fresult = Some(Failure) /\ ~CreateSent

\* The point at position k has no other point within eps_km.
Isolated(k) == find_neighbors(points[k], points, eps_km) = <<>>

\* C28: with min_points = 1 every isolated point of the input is returned in
\* a cluster of its own.
C28_IsolatedSingletons ==
    dpc = "done" /\ min_points = 1 =>
        \A k \in 1..Len(points) :
            Isolated(k) =>
                \E c \in DOMAIN clusters : clusters[c] = <<points[k].id>>

\* C29: for the five points of the example, eps_km = 2 and min_points = 2,
\* dbscan returns exactly 2 clusters, each of at least 2 points, and ids 3
\* and 4 are in the same cluster.
C29_Example ==
    (dpc = "done" /\ points = ExamplePoints /\ eps_km = 2 /\ min_points = 2) =>
        /\ Cardinality(DOMAIN clusters) = 2
        /\ \A c \in DOMAIN clusters : Len(clusters[c]) >= 2
        /\ ClustersOf(3) # {}
        /\ ClustersOf(3) = ClustersOf(4)

(***************************************************************************)
(* metadata.rs: extract_date_from_filename.                                *)
(***************************************************************************)
AsciiDigits == {"0", "1", "2", "3", "4", "5", "6", "7", "8", "9"}

\* char::is_ascii_digit
is_ascii_digit(c) == c \in AsciiDigits

\* The value of a digit.
digit_value(c) == CHOOSE d \in 0..9 : DigitChar(d) = c

\* str::parse of a run of digits.
RECURSIVE parse_digits(_)
parse_digits(s) ==
    IF s = <<>> THEN 0
    ELSE 10 * parse_digits(SubSeq(s, 1, Len(s) - 1)) + digit_value(s[Len(s)])

is_leap_year(year) == year % 4 = 0 /\ (year % 100 # 0 \/ year % 400 = 0)

days_in_month(year, month) ==
    IF month = 2 THEN (IF is_leap_year(year) THEN 29 ELSE 28)
    ELSE IF month \in {4, 6, 9, 11} THEN 30
    ELSE 31

\* NaiveDate::from_ymd_opt
from_ymd_opt(year, month, day) ==
    IF month \in 1..12 /\ day >= 1 /\ day <= days_in_month(year, month)
    THEN Some([year |-> year, month |-> month, day |-> day])
    ELSE None

\* filename[i..i + 8], for i counted from 0.
window(name, i) == SubSeq(name, i + 1, i + 8)

\* The condition of the if in the loop: eight digits whose year, month and
\* day are in 2000..=2100, 1..=12 and 1..=31.
in_ranges(date_str) ==
    /\ \A k \in 1..8 : is_ascii_digit(date_str[k])
    /\ parse_digits(SubSeq(date_str, 1, 4)) \in 2000..2100
    /\ parse_digits(SubSeq(date_str, 5, 6)) \in 1..12
    /\ parse_digits(SubSeq(date_str, 7, 8)) \in 1..31

\* The loop from position i on: the first window that passes the ranges is
\* returned through from_ymd_opt.
RECURSIVE scan_from(_, _)
scan_from(name, i) ==
    IF i >= (IF Len(name) >= 7 THEN Len(name) - 7 ELSE 0) THEN None
    ELSE IF in_ranges(window(name, i))
         THEN from_ymd_opt(parse_digits(SubSeq(window(name, i), 1, 4)),
                           parse_digits(SubSeq(window(name, i), 5, 6)),
                           parse_digits(SubSeq(window(name, i), 7, 8)))
         ELSE scan_from(name, i + 1)

extract_date_from_filename(name) == scan_from(name, 0)

\* The pieces the file names are made of.
NamePieces ==
    {<<"2", "0", "2", "4">>, <<"0", "2", "3", "0">>, <<"0", "2", "1", "1">>,
     <<"1", "3", "0", "1">>, <<"1">>, <<"_">>}

RECURSIVE Flatten(_)
Flatten(ss) == IF ss = <<>> THEN <<>> ELSE Head(ss) \o Flatten(Tail(ss))

InitDate ==
    /\ \E ss \in SeqsUpTo(NamePieces, MaxPieces) : filename = Flatten(ss)
    /\ date_result = None
    /\ date_pc = "call"

DateUnused ==
    /\ filename = <<>>
    /\ date_result = None
    /\ date_pc = "call"

\* The call.
DateCall ==
    /\ date_pc = "call"
    /\ date_result' = Some(extract_date_from_filename(filename))
    /\ date_pc' = "done"
    /\ UNCHANGED filename

\* The window at position i is a valid calendar date in the ranges.
ValidAt(name, i) ==
    /\ i + 8 <= Len(name)
    /\ in_ranges(window(name, i))
    /\ IsSome(from_ymd_opt(parse_digits(SubSeq(window(name, i), 1, 4)),
                           parse_digits(SubSeq(window(name, i), 5, 6)),
                           parse_digits(SubSeq(window(name, i), 7, 8))))

\* C30: extract_date_from_filename returns the date of the first 8-digit
\* window YYYYMMDD with 2000 <= YYYY <= 2100, 1 <= MM <= 12, 1 <= DD <= 31
\* that is a calendar date; a window that fails any of these is passed over
\* and the scan goes on, and the result is none only when no position gives a
\* valid date.
C30_FirstValidDate ==
    date_pc = "done" =>
        LET valid == {i \in 0..Len(filename) : ValidAt(filename, i)}
        IN  IF valid = {} THEN Unwrap(date_result) = None
            ELSE LET first == CHOOSE i \in valid : \A j \in valid : i <= j
                 IN  Unwrap(date_result) =
                       from_ymd_opt(
                         parse_digits(SubSeq(window(filename, first), 1, 4)),
                         parse_digits(SubSeq(window(filename, first), 5, 6)),
                         parse_digits(SubSeq(window(filename, first), 7, 8)))

(***************************************************************************)
(* The records: a FileRecord of analyze_files, an OneDriveRecord of         *)
(* drive_item_to_record.                                                    *)
(***************************************************************************)
\* str::parse::<i32>() of a run of characters.
parse_int(s) ==
    IF s # <<>> /\ \A k \in 1..Len(s) : is_ascii_digit(s[k])
    THEN Some(parse_digits(s))
    ELSE None

\* extract_exif_date from the display value of DateTimeOriginal; exif is None
\* when the file cannot be opened, has no EXIF container or has no such field.
extract_exif_date(exif) ==
    IF ~IsSome(exif) THEN None
    ELSE LET value == Unwrap(exif)
         IN  IF Len(value) >= 10
             THEN LET year == parse_int(SubSeq(value, 1, 4))
                      month == parse_int(SubSeq(value, 6, 7))
                      day == parse_int(SubSeq(value, 9, 10))
                  IN  IF IsSome(year) /\ IsSome(month) /\ IsSome(day)
                      THEN from_ymd_opt(Unwrap(year), Unwrap(month), Unwrap(day))
                      ELSE None
             ELSE None

\* extract_date_safe: the date of the mtime, None when the metadata cannot be
\* read.
extract_date_safe(file) == file.mtime

\* extract_date_with_fallback
extract_date_with_fallback(file) ==
    IF IsSome(extract_exif_date(file.exif)) THEN extract_exif_date(file.exif)
    ELSE IF IsSome(extract_date_from_filename(file.name))
         THEN extract_date_from_filename(file.name)
         ELSE extract_date_safe(file)

\* The date analyze_files gives a record.
record_date(file) == extract_date_safe(file)

\* The closure of analyze_files: None when hash_file fails.
analyze_file(file) ==
    IF ~file.readable THEN None
    ELSE Some([path |-> file.name,
               hash |-> hash_bytes(1),
               date |-> record_date(file),
               location |-> None])

Chars(year, rest) == decimal(year) \o rest

\* Display values of DateTimeOriginal.
ExifValues ==
    {Chars(2019, <<":", "0", "3", ":", "0", "4", " ", "1", "0">>),
     Chars(1900, <<":", "0", "1", ":", "0", "1", " ", "0", "0">>),
     Chars(2019, <<":", "0", "2", ":", "3", "0", " ", "1", "0">>),
     Chars(2019, <<":", "0", "3">>)}

\* Dates of an mtime.
MtimeDates ==
    {[year |-> 1969, month |-> 12, day |-> 31],
     [year |-> 2024, month |-> 1, day |-> 15],
     [year |-> 2101, month |-> 1, day |-> 1]}

ScannedFiles ==
    [exif : {None} \cup {Some(v) : v \in ExifValues},
     name : {Flatten(ss) : ss \in SeqsUpTo(NamePieces, MaxRecordPieces)},
     mtime : {None} \cup {Some(d) : d \in MtimeDates},
     readable : BOOLEAN]

\* takenDateTime values of the server.
TakenValues ==
    {[rfc3339 |-> FALSE, date |-> TakenDate],
     [rfc3339 |-> TRUE, date |-> TakenDate],
     [rfc3339 |-> TRUE, date |-> [year |-> 1899, month |-> 12, day |-> 30]],
     [rfc3339 |-> TRUE, date |-> [year |-> 2201, month |-> 1, day |-> 1]]}

PhotoFacets ==
    [taken_date_time : {None} \cup {Some(t) : t \in TakenValues},
     camera_make : {None, Some("Apple")},
     camera_model : {None, Some("iPhone 15 Pro")}]

LocationFacets ==
    [latitude : {None, Some(48)}, longitude : {None, Some(2)}]

MappedItems ==
    [id : {"abc123"},
     photo : {None} \cup {Some(p) : p \in PhotoFacets},
     location : {None} \cup {Some(l) : l \in LocationFacets},
     file : {None},
     deleted : {None, Some("{}")},
     parent_reference : {None}]

InitRecord ==
    /\ \/ rec_file \in {Some(f) : f \in ScannedFiles} /\ rec_item = None
       \/ rec_item \in {Some(i) : i \in MappedItems} /\ rec_file = None
    /\ rec_out = None
    /\ rec_pc = "call"

RecordUnused ==
    /\ rec_file = None
    /\ rec_item = None
    /\ rec_out = None
    /\ rec_pc = "call"

\* analyze_files on one file.
AnalyzeOne ==
    /\ rec_pc = "call"
    /\ IsSome(rec_file)
    /\ rec_out' = Some(analyze_file(Unwrap(rec_file)))
    /\ rec_pc' = "done"
    /\ UNCHANGED <<rec_file, rec_item>>

\* scan_photos on one item.
MapOne ==
    /\ rec_pc = "call"
    /\ IsSome(rec_item)
    /\ rec_out' = Some(Some(drive_item_to_record(Unwrap(rec_item))))
    /\ rec_pc' = "done"
    /\ UNCHANGED <<rec_file, rec_item>>

\* A FileRecord has been emitted for the file.
FileRecordEmitted == rec_pc = "done" /\ IsSome(rec_file) /\ IsSome(Unwrap(rec_out))

\* C31: the capture date of the FileRecord emitted by analyze_files is the
\* EXIF DateTimeOriginal date when present, otherwise the date of a valid
\* YYYYMMDD pattern of the file name, otherwise the mtime date.
C31_PriorityLadder ==
    FileRecordEmitted =>
        LET file == Unwrap(rec_file)
            date == Unwrap(Unwrap(rec_out)).date
        IN  /\ IsSome(extract_exif_date(file.exif)) =>
                 date = extract_exif_date(file.exif)
            /\ /\ ~IsSome(extract_exif_date(file.exif))
               /\ IsSome(extract_date_from_filename(file.name))
               => date = extract_date_from_filename(file.name)
            /\ /\ ~IsSome(extract_exif_date(file.exif))
               /\ ~IsSome(extract_date_from_filename(file.name))
               => date = file.mtime

\* An OneDriveRecord has been built for the item.
ItemMapped == rec_pc = "done" /\ IsSome(rec_item)

\* C32: camera is "{make} {model}" when both are present, the make alone or
\* the model alone when only one is present, and absent when neither is;
\* location is set only when latitude and longitude are both present; and
\* deleted is true exactly when the item carries a deletion marker.
C32_RecordMapping ==
    ItemMapped =>
        LET item == Unwrap(rec_item)
            record == Unwrap(Unwrap(rec_out))
            make == IF IsSome(item.photo) THEN Unwrap(item.photo).camera_make ELSE None
            model == IF IsSome(item.photo) THEN Unwrap(item.photo).camera_model ELSE None
        IN  /\ record.camera =
                 IF IsSome(make) /\ IsSome(model)
                 THEN Some(<<Unwrap(make), " ", Unwrap(model)>>)
                 ELSE IF IsSome(make) THEN make
                 ELSE IF IsSome(model) THEN model
                 ELSE None
            /\ IsSome(record.location) <=>
                 /\ IsSome(item.location)
                 /\ IsSome(Unwrap(item.location).latitude)
                 /\ IsSome(Unwrap(item.location).longitude)
            /\ record.deleted <=> IsSome(item.deleted)

\* The year is one the folders are made for.
YearInRange(date) == 1970 <= date.year /\ date.year <= 2100

\* C33: every capture date of a FileRecord or of an OneDriveRecord, and so
\* every YYYY folder of a run, has 1970 <= year <= 2100.
C33_YearRange ==
    /\ FileRecordEmitted =>
         LET date == Unwrap(Unwrap(rec_out)).date
         IN  IsSome(date) => YearInRange(Unwrap(date))
    /\ ItemMapped =>
         LET date == Unwrap(Unwrap(rec_out)).taken_date
         IN  IsSome(date) => YearInRange(Unwrap(date))

\* The placement of the record at position i failed: its folder could not be
\* resolved or created, or its move request failed.
PlaceFailed(i) ==
    /\ Placed(i)
    /\ i \in ch.unresolved \/ \E m \in MovesOf(i) : ~m.ok

\* C34: when the move of a record, or the creation of its destination
\* folder, fails in a run that returns Ok, the record's digest is not in the
\* seen_hashes the run persists, so that a later run places the item instead
\* of counting it as a duplicate.
C34_FailedNotSeen ==
    CloudRunOk =>
        \A i \in 1..Len(items) :
            PlaceFailed(i) /\ IsSome(items[i].quick_xor_hash) =>
                Unwrap(items[i].quick_xor_hash)
                    \notin DOMAIN delta_file.state.seen_hashes

(***************************************************************************)
(* The delta feed across commands: sift onedrive organize and sift         *)
(* onedrive scan against one drive.  Every photo has a capture date and a  *)
(* digest of its own, and every request succeeds.                          *)
(***************************************************************************)
FeedDest == "dest"
FeedElsewhere == "camera-roll"

\* The change the drive records for an item.
Change(id, parent) == [item_id |-> id, hash |-> <<"qx", id>>, parent |-> parent]

\* scan_photos from the state's cursor: the changes after it, and the cursor
\* the drive hands out at the end of the feed.
feed_scan(state, log) ==
    LET from == IF IsSome(state.delta_link) THEN Unwrap(state.delta_link) ELSE 0
    IN  [records |-> SubSeq(log, from + 1, Len(log)), new_delta_link |-> Len(log)]

\* Stage 2 over the records: the digests seen, the records kept, and for
\* every record counted in duplicates its item_id with the one seen.
RECURSIVE feed_dedup(_, _, _, _)
feed_dedup(recs, seen, kept, dups) ==
    IF recs = <<>>
    THEN [seen_hashes |-> seen, unique |-> kept, duplicates |-> dups]
    ELSE LET record == Head(recs)
         IN  IF record.hash \in DOMAIN seen
             THEN feed_dedup(Tail(recs), seen, kept,
                             Append(dups, <<record.item_id, seen[record.hash]>>))
             ELSE feed_dedup(Tail(recs),
                             Put(seen, record.hash, record.item_id),
                             Append(kept, record), dups)

\* Stage 4 over the unique records: the items a move request is sent for.
feed_moves(kept) ==
    SelectSeq(kept, LAMBDA record : record.parent # FeedDest)

InitFeed ==
    /\ feed_log = <<>>
    /\ feed_parent = EmptyMap
    /\ feed_file = DefaultDeltaState
    /\ feed_reported = {}
    /\ feed_last = "none"
    /\ feed_scans = 0
    /\ feed_cmds = 0
    /\ feed_dups = <<>>

FeedUnused == InitFeed

\* A photo is uploaded to the drive.
FeedUpload ==
    /\ Cardinality(DOMAIN feed_parent) < MaxUploads
    /\ LET id == Cardinality(DOMAIN feed_parent) + 1
       IN  /\ feed_parent' = Put(feed_parent, id, FeedElsewhere)
           /\ feed_log' = Append(feed_log, Change(id, FeedElsewhere))
    /\ UNCHANGED <<feed_file, feed_reported, feed_last, feed_scans, feed_cmds,
                   feed_dups>>

\* sift onedrive organize, a whole run; the drive records every move.
FeedOrganize ==
    /\ feed_cmds < MaxCommands
    /\ feed_cmds' = feed_cmds + 1
    /\ LET scanned == feed_scan(feed_file, feed_log)
           stage2 == feed_dedup(scanned.records, feed_file.seen_hashes, <<>>, <<>>)
           moved == feed_moves(stage2.unique)
       IN  /\ feed_reported' =
                feed_reported \cup {scanned.records[k].item_id :
                                      k \in 1..Len(scanned.records)}
           /\ feed_parent' =
                [id \in DOMAIN feed_parent |->
                   IF \E k \in 1..Len(moved) : moved[k].item_id = id
                   THEN FeedDest ELSE feed_parent[id]]
           /\ feed_log' =
                feed_log \o [k \in 1..Len(moved) |-> Change(moved[k].item_id, FeedDest)]
           /\ feed_file' = [delta_link |-> Some(scanned.new_delta_link),
                            seen_hashes |-> stage2.seen_hashes]
           /\ feed_dups' = stage2.duplicates
    /\ feed_last' = "organize"
    /\ UNCHANGED feed_scans

\* sift onedrive scan [--full], a whole run.
FeedScan ==
    /\ feed_cmds < MaxCommands
    /\ feed_cmds' = feed_cmds + 1
    /\ feed_scans' = feed_scans + 1
    /\ \E flag \in BOOLEAN :
         LET state == IF flag THEN reset(feed_file) ELSE feed_file
             scanned == feed_scan(state, feed_log)
         IN  /\ feed_reported' =
                  feed_reported \cup {scanned.records[k].item_id :
                                        k \in 1..Len(scanned.records)}
             /\ feed_file' = [state EXCEPT
                                !.delta_link = Some(scanned.new_delta_link)]
    /\ feed_last' = "scan"
    /\ UNCHANGED <<feed_log, feed_parent, feed_dups>>

\* C35: whatever scan commands ran in between, when an organize run returns
\* every photo the drive has reported to a command is in its date folder.
C35_ScanBetweenRuns ==
    feed_last = "organize" =>
        \A id \in feed_reported : feed_parent[id] = FeedDest

\* C36: a record is counted in duplicates only when seen_hashes maps its
\* digest to another item_id; an item the feed reports again, with the same
\* item_id and digest, is not counted.
C36_DuplicateIsOtherItem ==
    feed_last = "organize" =>
        \A k \in 1..Len(feed_dups) : feed_dups[k][1] # feed_dups[k][2]

\* This step is a refresh that succeeded and replaced the client's token.
RefreshDone ==
    /\ "refresh" \in token_requests'
    /\ "devicecode" \notin token_requests'
    /\ issued' = issued + 1
    /\ IsSome(client_token')
    /\ client_token' # client_token

\* The token the refresh replaces: the client's, or the cached one when
\* authenticate refreshes.
Replaced == IF IsSome(client_token) THEN client_token ELSE token_file

\* C37: after a successful refresh the token the client holds, which is the
\* one written to the cache, carries a refresh token whenever the token it
\* replaced carried one.
C37_RefreshTokenKept ==
    [][(RefreshDone /\ IsSome(Replaced) /\ IsSome(Unwrap(Replaced).refresh_token))
        => (/\ IsSome(Unwrap(client_token').refresh_token)
            /\ config_dir => token_file' = client_token')]_vars

\* The entries the run has added to the index it loaded.
EntriesAdded == DOMAIN index \ DOMAIN h.index0

\* C38: at the end of a local run files_analyzed <= files_scanned,
\* files_skipped_duplicates + files_organized + files_failed =
\* files_analyzed, and the run has added files_organized entries to the
\* index.
C38_Counters ==
    RunOk =>
        /\ stats.files_analyzed <= stats.files_scanned
        /\ stats.files_skipped_duplicates + stats.files_organized
             + stats.files_failed = stats.files_analyzed
        /\ Cardinality(EntriesAdded) = stats.files_organized


\* ---- C39: ids that differ from positions ----

InputIds == {points[k].id : k \in 1..Len(points)}

ReturnedIds == UNION {Range(clusters[c]) : c \in DOMAIN clusters}

\* C39: for every input with distinct non-negative ids, whether or not they
\* are the points' positions, dbscan never indexes the slice out of bounds,
\* and the clusters it returns hold only ids of the input.
C39_NoOutOfBounds ==
    /\ dpc # "panic"
    /\ dpc = "done" => ReturnedIds \subseteq InputIds

\* ---- C40: border points and the order of the input ----

IdsArePositions == \A k \in 1..Len(points) : points[k].id = k - 1

IsCore(k) == Len(find_neighbors(points[k], points, eps_km)) >= min_points

NearCore(k) ==
    \E j \in 1..Len(points) :
        /\ IsCore(j)
        /\ points[k].id \in Range(find_neighbors(points[j], points, eps_km))

\* C40: when dbscan has returned, every point within eps_km of a core point
\* is in some cluster, whatever the order of the points in the input (here
\* for inputs whose ids are the positions).
C40_BorderPointsClustered ==
    (dpc = "done" /\ IdsArePositions) =>
        \A k \in 1..Len(points) : NearCore(k) => ClustersOf(points[k].id) # {}

(***************************************************************************)
(* Specifications: one pipeline runs, the other one is not in use.         *)
(***************************************************************************)
LocalUnused ==
    /\ source = [n \in OtherNames |->
                   [content |-> 1, mtime |-> CHOOSE d \in Dates : TRUE]]
    /\ dest = EmptyMap
    /\ index_file = [exists |-> FALSE, bytes |-> <<>>]
    /\ dry_run = FALSE
    /\ pc = "idle"
    /\ result = "none"
    /\ index = EmptyMap
    /\ files = <<>>
    /\ records = <<>>
    /\ unique_records = <<>>
    /\ stats = DefaultStats
    /\ errors = <<>>
    /\ runs = 0
    /\ edits = 0
    /\ h = NoHistory

InitLocalSpec == InitLocal /\ InitCloud /\ ScanUnused /\ IndexUnused /\ RetryUnused /\ TokenUnused /\ DbUnused /\ SaveUnused /\ PlanUnused /\ FolderUnused /\ DateUnused /\ RecordUnused /\ FeedUnused

NextLocalSpec ==
    \/ StartRun /\ UNCHANGED exceptLocal
    \/ Exit /\ UNCHANGED exceptLocal
    \/ LoadIndex /\ UNCHANGED exceptLocal
    \/ ScanSource /\ UNCHANGED exceptLocal
    \/ AnalyzeFiles /\ UNCHANGED exceptLocal
    \/ Deduplicate /\ UNCHANGED exceptLocal
    \/ OrganizeFile /\ UNCHANGED exceptLocal
    \/ SaveOpen /\ UNCHANGED exceptLocal
    \/ SaveWrite /\ UNCHANGED exceptLocal
    \/ Crash /\ UNCHANGED exceptLocal
    \/ EditSource /\ UNCHANGED exceptLocal

SpecLocal == InitLocalSpec /\ [][NextLocalSpec]_vars

InitCloudSpec == LocalUnused /\ InitCloud /\ ScanUnused /\ IndexUnused /\ RetryUnused /\ TokenUnused /\ DbUnused /\ SaveUnused /\ PlanUnused /\ FolderUnused /\ DateUnused /\ RecordUnused /\ FeedUnused

NextCloudSpec ==
    \/ CloudStart /\ UNCHANGED exceptCloud
    \/ CloudLoadState /\ UNCHANGED exceptCloud
    \/ CloudFetchPage /\ UNCHANGED exceptCloud
    \/ CloudDeduplicate /\ UNCHANGED exceptCloud
    \/ CloudGetRootId /\ UNCHANGED exceptCloud
    \/ CloudOrganize /\ UNCHANGED exceptCloud
    \/ CloudPersist /\ UNCHANGED exceptCloud
    \/ CloudExit /\ UNCHANGED exceptCloud

SpecCloud == InitCloudSpec /\ [][NextCloudSpec]_vars

InitScanSpec == LocalUnused /\ InitScan /\ IndexUnused /\ RetryUnused /\ TokenUnused /\ DbUnused /\ SaveUnused /\ PlanUnused /\ FolderUnused /\ DateUnused /\ RecordUnused /\ FeedUnused

NextScanSpec ==
    \/ ScanStart /\ UNCHANGED exceptScan
    \/ CloudFetchPage /\ UNCHANGED <<exceptScan, full>>
    \/ ScanSave /\ UNCHANGED exceptScan
    \/ CloudExit /\ UNCHANGED <<exceptScan, full>>

SpecScan == InitScanSpec /\ [][NextScanSpec]_vars

InitIndexSpec == LocalUnused /\ InitCloud /\ ScanUnused /\ InitIndex /\ RetryUnused /\ TokenUnused /\ DbUnused /\ SaveUnused /\ PlanUnused /\ FolderUnused /\ DateUnused /\ RecordUnused /\ FeedUnused

NextIndexSpec ==
    \/ IndexAdd /\ UNCHANGED exceptIndex
    \/ IndexSave /\ UNCHANGED exceptIndex
    \/ IndexLoad /\ UNCHANGED exceptIndex
    \/ IndexReopen /\ UNCHANGED exceptIndex

SpecIndex == InitIndexSpec /\ [][NextIndexSpec]_vars

InitRetrySpec ==
    LocalUnused /\ InitCloud /\ ScanUnused /\ IndexUnused /\ InitRetry /\ TokenUnused /\ DbUnused /\ SaveUnused /\ PlanUnused /\ FolderUnused /\ DateUnused /\ RecordUnused /\ FeedUnused

NextRetrySpec ==
    \/ ReadAttempt /\ UNCHANGED exceptRetry
    \/ ReadSleep /\ UNCHANGED exceptRetry
    \/ ReadExhausted /\ UNCHANGED exceptRetry

SpecRetry == InitRetrySpec /\ [][NextRetrySpec]_vars

InitTokenSpec ==
    LocalUnused /\ InitCloud /\ ScanUnused /\ IndexUnused /\ RetryUnused /\ InitToken /\ DbUnused /\ SaveUnused /\ PlanUnused /\ FolderUnused /\ DateUnused /\ RecordUnused /\ FeedUnused

NextTokenSpec ==
    \/ AuthStart /\ UNCHANGED exceptToken
    \/ DevicePoll /\ UNCHANGED exceptToken
    \/ DeviceTimeout /\ UNCHANGED exceptToken
    \/ ApiCall /\ UNCHANGED exceptToken
    \/ Tick /\ UNCHANGED exceptToken
    \/ TokenExit /\ UNCHANGED exceptToken

SpecToken == InitTokenSpec /\ [][NextTokenSpec]_vars

\* Every request to the token endpoint returns, so the polling loop goes on.
SpecTokenLive ==
    /\ SpecToken
    /\ WF_vars(DevicePoll /\ UNCHANGED exceptToken)
    /\ WF_vars(DeviceTimeout /\ UNCHANGED exceptToken)

InitDbSpec ==
    LocalUnused /\ InitCloud /\ ScanUnused /\ IndexUnused /\ RetryUnused /\ TokenUnused /\ InitDb /\ SaveUnused /\ PlanUnused /\ FolderUnused /\ DateUnused /\ RecordUnused /\ FeedUnused

NextDbSpec ==
    \/ DbVisit /\ UNCHANGED exceptDb
    \/ DbExpand /\ UNCHANGED exceptDb
    \/ DbInsert /\ UNCHANGED exceptDb
    \/ DbReturn /\ UNCHANGED exceptDb

SpecDb == InitDbSpec /\ [][NextDbSpec]_vars

InitSaveSpec ==
    LocalUnused /\ InitCloud /\ ScanUnused /\ IndexUnused /\ RetryUnused /\ TokenUnused /\ DbUnused /\ InitSave /\ PlanUnused /\ FolderUnused /\ DateUnused /\ RecordUnused /\ FeedUnused

NextSaveSpec ==
    \/ SavePath /\ UNCHANGED exceptSave
    \/ SaveTruncate /\ UNCHANGED exceptSave
    \/ SaveData /\ UNCHANGED exceptSave
    \/ SaveCrash /\ UNCHANGED exceptSave

SpecSave == InitSaveSpec /\ [][NextSaveSpec]_vars

InitFolderSpec ==
    LocalUnused /\ InitCloud /\ ScanUnused /\ IndexUnused /\ RetryUnused /\ TokenUnused /\ DbUnused /\ SaveUnused /\ PlanUnused /\ InitFolder /\ DateUnused /\ RecordUnused /\ FeedUnused

NextFolderSpec ==
    \/ FolderLookup /\ UNCHANGED exceptFolder
    \/ FolderCreate /\ UNCHANGED exceptFolder

SpecFolder == InitFolderSpec /\ [][NextFolderSpec]_vars

InitDateSpec ==
    LocalUnused /\ InitCloud /\ ScanUnused /\ IndexUnused /\ RetryUnused /\ TokenUnused /\ DbUnused /\ SaveUnused /\ PlanUnused /\ FolderUnused /\ InitDate /\ RecordUnused /\ FeedUnused

NextDateSpec ==
    \/ DateCall /\ UNCHANGED exceptDate

SpecDate == InitDateSpec /\ [][NextDateSpec]_vars

InitRecordSpec ==
    LocalUnused /\ InitCloud /\ ScanUnused /\ IndexUnused /\ RetryUnused /\ TokenUnused /\ DbUnused /\ SaveUnused /\ PlanUnused /\ FolderUnused /\ DateUnused /\ InitRecord /\ FeedUnused

NextRecordSpec ==
    \/ AnalyzeOne /\ UNCHANGED exceptRecord
    \/ MapOne /\ UNCHANGED exceptRecord

SpecRecord == InitRecordSpec /\ [][NextRecordSpec]_vars

InitFeedSpec ==
    LocalUnused /\ InitCloud /\ ScanUnused /\ IndexUnused /\ RetryUnused /\ TokenUnused /\ DbUnused /\ SaveUnused /\ PlanUnused /\ FolderUnused /\ DateUnused /\ RecordUnused /\ InitFeed

NextFeedSpec ==
    \/ FeedUpload /\ UNCHANGED exceptFeed
    \/ FeedOrganize /\ UNCHANGED exceptFeed
    \/ FeedScan /\ UNCHANGED exceptFeed

SpecFeed == InitFeedSpec /\ [][NextFeedSpec]_vars

InitPlanSpec ==
    LocalUnused /\ InitCloud /\ ScanUnused /\ IndexUnused /\ RetryUnused /\ TokenUnused /\ DbUnused /\ SaveUnused /\ InitPlan /\ FolderUnused /\ DateUnused /\ RecordUnused /\ FeedUnused

NextPlanSpec ==
    \/ PlanCall /\ UNCHANGED exceptPlan

SpecPlan == InitPlanSpec /\ [][NextPlanSpec]_vars

====
